---- MODULE Spec2Model ----
(***************************************************************************)
(* Model of the document-store client ESDB (src/esdb.py): the bulk         *)
(* ingestion loop insert_items and the scroll iterators.  The search       *)
(* engine is the environment: a bulk submission either returns or raises,  *)
(* a scroll cursor serves the matching documents page by page.             *)
(***************************************************************************)
EXTENDS Integers, Sequences, FiniteSets, TLC

(***************************************************************************)
(* Bounds of the model.                                                    *)
(***************************************************************************)
MaxItems == 5
MaxBatchSize == 3
MaxClock == 2
MaxDocs == 4
MaxPageSize == 3
MaxMaxSize == 3
MaxIds == 2
MaxLifecycleCalls == 3
MaxConcItems == 2

(***************************************************************************)
(* Program constants.                                                      *)
(***************************************************************************)
\* str(e)[0:512], src/esdb.py:286
ErrMaxLen == 512
\* scroll_items: 'size': 100, src/esdb.py:368
ScrollItemsSize == 100
\* iterate_query_items: 'size': 100, src/esdb.py:433
QueryItemsSize == 100

VARIABLES
    pc,            \* position of the running call
    raised,        \* name of the exception that left the call, "" if none
    items,         \* insert_items: the caller's list of documents (mutated by stamping)
    batch_size,    \* insert_items: parameter batch_size
    refresh,       \* insert_items: parameter refresh
    current_time,  \* insert_items: local current_time
    cnt,           \* insert_items: loop counter of enumerate(items, start=1)
    batch,         \* insert_items: local batch
    success,       \* insert_items: local success
    failed,        \* insert_items: local failed
    errors,        \* insert_items: local errors (a string, as a sequence of characters)
    result,        \* insert_items: the returned dict
    bulkLog,       \* engine: the bulk submissions received, in order, with their outcome
    refreshCount,  \* engine: number of refresh requests received
    lastExc,       \* engine: text of the last exception a bulk submission raised
    variant,       \* iterators: the public iterator the consumer drives
    page_size,     \* iterators: the 'size' of the dsl query
    max_size,      \* iterators: parameter max_size, <<>> for None, <<k>> for k
    num_items,     \* iterators: local num_items
    hits,          \* iterators: the hits of the current response res (ids of the documents)
    hit_idx,       \* _scroll_items: number of hits of the current page already yielded
    scnt,          \* _scroll_items / _scroll_items_fast: local cnt
    has_next,      \* _scroll_items: local has_next
    scroll_id,     \* iterators: local scroll_id
    res_scroll_id, \* iterators: res.get('_scroll_id') of the current response
    ocnt,          \* iterate_query_items / scroll_items_by_size: local cnt
    out,           \* consumer: the values received so far, in order
    num_matching,  \* engine: number of documents matching the query (ids 1..N in cursor order)
    scrollPos,     \* engine: number of matching documents the cursor has served
    handle,        \* engine: the scroll id of its last response
    searchCalls,   \* engine: number of search requests that opened a cursor
    scrollCalls,   \* engine: number of scroll (advance) requests
    pagesServed,   \* engine: number of non-empty pages served
    staleAdvance,  \* engine: an advance carried a scroll id other than the last one returned
    call_time,     \* clock: the time, in milliseconds, at which the running call started
    call,          \* document operations: the running call, its name and its arguments
    ret,           \* document operations: the value the call returned
    store,         \* engine: the documents of the index, _id -> _source
    indexExists,   \* engine: the index exists
    reqLog,        \* engine: the requests of the running call, in order
    engineFailed,  \* engine: a request of the running call failed (unreachable, timeout)
    warned,        \* log: the running call logged a warning
    iters,         \* concurrent iterators: the local variables of each one
    cursors,       \* engine: the open cursors, in the order they were opened
    ingests        \* concurrent insert_items calls: the local variables of each one

ingestVars == <<items, batch_size, refresh, current_time, cnt, batch, success,
                failed, errors, result, bulkLog, refreshCount, lastExc>>

scrollVars == <<variant, page_size, max_size, num_items, hits, hit_idx, scnt, has_next,
                scroll_id, res_scroll_id, ocnt, out, num_matching, scrollPos, handle,
                searchCalls, scrollCalls, pagesServed, staleAdvance>>

storeVars == <<call, ret, store, indexExists, reqLog, engineFailed, warned>>

concVars == <<iters, cursors, ingests>>

vars == <<pc, raised, call_time, ingestVars, scrollVars, storeVars, concVars>>

(***************************************************************************)
(* Strings are sequences of one-character strings.                         *)
(***************************************************************************)
Text(n, c) == [i \in 1..n |-> c]

\* s[0:n]
Slice0(s, n) == SubSeq(s, 1, IF Len(s) < n THEN Len(s) ELSE n)

\* 'Error with bulk index: '
ErrPrefix == <<"E","r","r","o","r"," ","w","i","t","h"," ","b","u","l","k"," ",
               "i","n","d","e","x",":"," ">>

\* 'Error with bulk index: %s' % str(e)[0:512]
BulkErrorMessageCut(e) == ErrPrefix \o e
BulkErrorMessage(e) == ErrPrefix \o Slice0(e, ErrMaxLen)

(***************************************************************************)
(* Documents are mappings from field names to values.                      *)
(***************************************************************************)
HasField(item, f) == f \in DOMAIN item

\* if 'indexed' not in item: item['indexed'] = current_time
StampAlways(item, t) ==
    [f \in DOMAIN item \cup {"indexed"} |-> IF f = "indexed" THEN t ELSE item[f]]
Stamp(item, t) ==
    IF HasField(item, "indexed") THEN item
    ELSE [f \in DOMAIN item \cup {"indexed"} |-> IF f = "indexed" THEN t ELSE item[f]]

\* doc_for_index (the '_index' entry is the constant db_name)
DocForIndex(item) == [_id |-> item["id"], _source |-> item]

(***************************************************************************)
(* The inputs of insert_items: N documents, the i-th with id i, at most    *)
(* one without id, and a caller-supplied indexed value 0 on none, on the   *)
(* odd positions or on all of them.                                        *)
(***************************************************************************)
IndexedPatterns(n) == { {}, {i \in 1..n : i % 2 = 1}, 1..n }

InputItem(i, withIndexed, missing) ==
    LET flds == (IF i = missing THEN {} ELSE {"id"}) \cup
                (IF i \in withIndexed THEN {"indexed"} ELSE {})
    IN  [f \in flds |-> IF f = "id" THEN i ELSE 0]

InputItemsOfLen(n) ==
    { [i \in 1..n |-> InputItem(i, w, m)] : w \in IndexedPatterns(n), m \in 0..n }

InputItems == UNION { InputItemsOfLen(n) : n \in 0..MaxItems }

\* the exception texts str(e) a failing bulk submission can carry
ExcTexts == { Text(0, "x"), Text(2, "x"), Text(ErrMaxLen + 1, "x"), Text(ErrMaxLen + 1, "y") }

NoResult == [none |-> TRUE]

NoCall == [op |-> ""]

\* the index as the constructed client finds it: one document, written
\* earlier by insert_item({'id': 1, 'a': 1}) at time 0
InitialStore == [i \in {1} |-> [id |-> 1, indexed |-> 0, a |-> 1]]

\* the callers that use the client at the same time
Procs == {1, 2}

\* a generator or call that has not started: its local variables are unset
NoScrollId == [cursor |-> 0, gen |-> 0]

IdleIterator ==
    [pc |-> "idle", page_size |-> 1, num_items |-> 0, hits |-> <<>>, hit_idx |-> 0,
     cnt |-> 0, has_next |-> FALSE, scroll_id |-> NoScrollId,
     res_scroll_id |-> NoScrollId, out |-> <<>>, raised |-> ""]

IdleIngest ==
    [pc |-> "idle", items |-> <<>>, batch_size |-> 1, current_time |-> 0, cnt |-> 0,
     batch |-> <<>>, success |-> 0, failed |-> 0, errors |-> <<>>, result |-> NoResult,
     log |-> <<>>]


(***************************************************************************)
(* Initial state: the client is constructed, no call is running.           *)
(***************************************************************************)
InitClient ==
    /\ raised = ""
    /\ items = <<>>
    /\ batch_size = 1
    /\ refresh = FALSE
    /\ current_time = 0
    /\ cnt = 0
    /\ batch = <<>>
    /\ success = 0
    /\ failed = 0
    /\ errors = <<>>
    /\ result = NoResult
    /\ bulkLog = <<>>
    /\ refreshCount = 0
    /\ lastExc = <<>>
    /\ variant = ""
    /\ page_size = 1
    /\ max_size = <<>>
    /\ num_items = 0
    /\ hits = <<>>
    /\ hit_idx = 0
    /\ scnt = 0
    /\ has_next = FALSE
    /\ scroll_id = 0
    /\ res_scroll_id = 0
    /\ ocnt = 0
    /\ out = <<>>
    /\ num_matching = 0
    /\ scrollPos = 0
    /\ handle = 0
    /\ searchCalls = 0
    /\ scrollCalls = 0
    /\ pagesServed = 0
    /\ staleAdvance = FALSE
    /\ call_time = 0
    /\ call = NoCall
    /\ ret = NoResult
    /\ reqLog = <<>>
    /\ engineFailed = FALSE
    /\ warned = FALSE
    /\ iters = [p \in Procs |-> IdleIterator]
    /\ cursors = <<>>
    /\ ingests = [p \in Procs |-> IdleIngest]

\* the client is constructed over an index holding one document
Init ==
    /\ InitClient
    /\ pc = "idle"
    /\ store = InitialStore
    /\ indexExists = TRUE

(***************************************************************************)
(* insert_items(items, refresh, batch_size), src/esdb.py:262-300           *)
(***************************************************************************)
\* lines 266-268: the call starts; current_time is read once
InsertItemsCall ==
    /\ pc = "idle"
    /\ \E its \in InputItems, b \in 1..MaxBatchSize, r \in BOOLEAN, t \in 1..MaxClock :
          /\ items' = its
          /\ batch_size' = b
          /\ refresh' = r
          /\ current_time' = t
          /\ \E s \in 1..t : call_time' = s
    /\ success' = 0
    /\ failed' = 0
    /\ errors' = <<>>
    /\ batch' = <<>>
    /\ cnt' = 0
    /\ pc' = "insert_items"
    /\ UNCHANGED scrollVars
    /\ UNCHANGED storeVars
    /\ UNCHANGED <<raised, result, bulkLog, refreshCount, lastExc>>
    /\ UNCHANGED concVars

\* line 281: cnt % batch_size == 0 or cnt == len(items)
BatchIsDueFullOnly(c, b, n) == c % b = 0
BatchIsDue(c, b, n) == c % b = 0 \/ c = n

\* line 276: item['id'] raises KeyError and nothing in insert_items catches it
KeyErrorSkipsItem == UNCHANGED <<pc, raised>>
KeyErrorEndsCall ==
    /\ raised' = "KeyError"
    /\ pc' = "raised"

\* lines 269-272 and 274-278 on an item without id: the item is stamped,
\* then item['id'] raises KeyError
InsertItemsMissingId ==
    /\ pc = "insert_items"
    /\ cnt < Len(items)
    /\ ~HasField(items[cnt + 1], "id")
    /\ cnt' = cnt + 1
    /\ items' = [items EXCEPT ![cnt + 1] = Stamp(@, current_time)]
    /\ KeyErrorEndsCall
    /\ UNCHANGED scrollVars
    /\ UNCHANGED <<call_time, storeVars>>
    /\ UNCHANGED <<batch_size, refresh, current_time, batch, success, failed,
                   errors, result, bulkLog, refreshCount, lastExc>>
    /\ UNCHANGED concVars

\* lines 269-281: one iteration that only appends to the batch
InsertItemsAppend ==
    /\ pc = "insert_items"
    /\ cnt < Len(items)
    /\ HasField(items[cnt + 1], "id")
    /\ ~BatchIsDue(cnt + 1, batch_size, Len(items))
    /\ cnt' = cnt + 1
    /\ items' = [items EXCEPT ![cnt + 1] = Stamp(@, current_time)]
    /\ batch' = Append(batch, DocForIndex(items'[cnt + 1]))
    /\ UNCHANGED scrollVars
    /\ UNCHANGED <<call_time, storeVars>>
    /\ UNCHANGED <<pc, raised, batch_size, refresh, current_time, success, failed,
                   errors, result, bulkLog, refreshCount, lastExc>>
    /\ UNCHANGED concVars

\* lines 290-291: batch = []; if refresh: the refresh request comes next
AfterSubmit ==
    /\ batch' = <<>>
    /\ pc' = IF refresh THEN "insert_items_refresh" ELSE "insert_items"
    /\ UNCHANGED refreshCount

\* helpers.bulk writes every document of the batch under its _id, a later
\* one over an earlier one of the same _id; a missing index is created
EngineBulk(docs) ==
    LET ids == { docs[k]._id : k \in 1..Len(docs) }
        last(i) == CHOOSE k \in 1..Len(docs) :
                      /\ docs[k]._id = i
                      /\ \A j \in (k + 1)..Len(docs) : docs[j]._id # i
    IN  /\ store' = [i \in DOMAIN store \cup ids |->
                        IF i \in ids THEN docs[last(i)]._source ELSE store[i]]
        /\ indexExists' = TRUE

\* lines 269-284, 290-291: one iteration up to its bulk submission, which
\* returns.
\* helpers.bulk returns the number of successes and the list of errors, which
\* is empty whenever it returns (a failed document makes it raise); failed
\* stands for the length of that list
InsertItemsSubmitOk ==
    /\ pc = "insert_items"
    /\ cnt < Len(items)
    /\ HasField(items[cnt + 1], "id")
    /\ BatchIsDue(cnt + 1, batch_size, Len(items))
    /\ cnt' = cnt + 1
    /\ items' = [items EXCEPT ![cnt + 1] = Stamp(@, current_time)]
    /\ LET full == Append(batch, DocForIndex(items'[cnt + 1]))
       IN  /\ bulkLog' = Append(bulkLog, [docs |-> full, ok |-> TRUE])
           /\ success' = Len(full)
           /\ failed' = 0
           /\ EngineBulk(full)
    /\ AfterSubmit
    /\ UNCHANGED scrollVars
    /\ UNCHANGED <<call_time, call, ret, reqLog, engineFailed, warned>>
    /\ UNCHANGED <<raised, batch_size, refresh, current_time, errors, result, lastExc>>
    /\ UNCHANGED concVars

\* lines 285-291: except Exception: the message and the failed count are
\* recorded and the iteration goes on with batch = [] and the refresh
BulkExceptionHandler(e, full) ==
    /\ errors' = BulkErrorMessage(e)
    /\ failed' = Len(full)
    /\ AfterSubmit
    /\ UNCHANGED raised

\* lines 269-283, 285-291: one iteration up to its bulk submission, which
\* raises
InsertItemsSubmitFail ==
    /\ pc = "insert_items"
    /\ cnt < Len(items)
    /\ HasField(items[cnt + 1], "id")
    /\ BatchIsDue(cnt + 1, batch_size, Len(items))
    /\ cnt' = cnt + 1
    /\ items' = [items EXCEPT ![cnt + 1] = Stamp(@, current_time)]
    /\ \E e \in ExcTexts :
          LET full == Append(batch, DocForIndex(items'[cnt + 1]))
          IN  /\ bulkLog' = Append(bulkLog, [docs |-> full, ok |-> FALSE])
              /\ lastExc' = e
              /\ BulkExceptionHandler(e, full)
    /\ UNCHANGED scrollVars
    /\ UNCHANGED <<call_time, storeVars>>
    /\ UNCHANGED <<batch_size, refresh, current_time, success, result>>
    /\ UNCHANGED concVars

\* lines 291-292, 489-490: the refresh request after a batch, answered
InsertItemsRefresh ==
    /\ pc = "insert_items_refresh"
    /\ indexExists
    /\ refreshCount' = refreshCount + 1
    /\ pc' = "insert_items"
    /\ UNCHANGED scrollVars
    /\ UNCHANGED <<call_time, storeVars>>
    /\ UNCHANGED <<raised, items, batch_size, refresh, current_time, cnt, batch,
                   success, failed, errors, result, bulkLog, lastExc>>
    /\ UNCHANGED concVars

\* lines 294-300: the result dict
BulkResult(s, f, e) ==
    IF e # <<>> THEN [success |-> s, failed |-> f, errors |-> e]
    ELSE [success |-> s, failed |-> f]

InsertItemsReturn ==
    /\ pc = "insert_items"
    /\ cnt = Len(items)
    /\ result' = BulkResult(success, failed, errors)
    /\ pc' = "returned"
    /\ UNCHANGED scrollVars
    /\ UNCHANGED <<call_time, storeVars>>
    /\ UNCHANGED <<raised, items, batch_size, refresh, current_time, cnt, batch,
                   success, failed, errors, bulkLog, refreshCount, lastExc>>
    /\ UNCHANGED concVars

NextIngest ==
    \/ InsertItemsCall
    \/ InsertItemsMissingId
    \/ InsertItemsAppend
    \/ InsertItemsSubmitOk
    \/ InsertItemsSubmitFail
    \/ InsertItemsRefresh
    \/ InsertItemsReturn

SpecIngest == Init /\ [][NextIngest]_vars

(***************************************************************************)
(* The scroll iterators.  A consumer drives one public iterator to its     *)
(* end; every action runs the generators from one yield or engine request  *)
(* to the next.                                                            *)
(***************************************************************************)
None == [None |-> TRUE]

\* hit['_source'] of the i-th matching document
Source(i) == [id |-> i]

\* [hit['_source']["id"] for hit in ...]: a page of ids, as the consumer gets it
IdPage(ids) == [ids |-> ids]

PerDocVariants == {"iterate_items", "scroll_items", "iterate_query_items"}

\* the inputs: numbers of matching documents and max_size arguments around
\* the page size p
DocCounts(p) == (0..MaxDocs) \cup {p - 1, p, p + 1, 2 * p, 2 * p + 1}
MaxSizeArgs(p) == {<<>>} \cup { <<k>> : k \in (0..MaxMaxSize) \cup {p - 1, p, p + 1, 2 * p} }

\* engine: the page of at most size hits after position pos of n matches
EnginePage(pos, size, n) ==
    [i \in 1..(IF n - pos < size THEN n - pos ELSE size) |-> pos + i]

\* engine: es_client.search(..., scroll=SCROLL_SIZE) opens a cursor and serves the first page
EngineSearch ==
    /\ hits' = EnginePage(0, page_size, num_matching)
    /\ scrollPos' = Len(hits')
    /\ handle' = handle + 1
    /\ res_scroll_id' = handle'
    /\ searchCalls' = searchCalls + 1
    /\ pagesServed' = IF hits' # <<>> THEN pagesServed + 1 ELSE pagesServed
    /\ UNCHANGED <<scrollCalls, staleAdvance, num_matching>>

\* engine: es_client.scroll(body={'scroll_id': id}, ...) serves the next page
EngineScroll(id) ==
    /\ hits' = EnginePage(scrollPos, page_size, num_matching)
    /\ scrollPos' = scrollPos + Len(hits')
    /\ handle' = handle + 1
    /\ res_scroll_id' = handle'
    /\ scrollCalls' = scrollCalls + 1
    /\ staleAdvance' = (staleAdvance \/ id # handle)
    /\ pagesServed' = IF hits' # <<>> THEN pagesServed + 1 ELSE pagesServed
    /\ UNCHANGED <<searchCalls, num_matching>>

\* the call of a public iterator and the consumer's first next()
StartIteration(v, p, m, n) ==
    /\ pc = "idle"
    /\ variant' = v
    /\ page_size' = p
    /\ max_size' = m
    /\ num_matching' = n
    /\ pc' = "search"
    /\ UNCHANGED <<raised, num_items, hits, hit_idx, scnt, has_next, scroll_id,
                   res_scroll_id, ocnt, out, scrollPos, handle, searchCalls,
                   scrollCalls, pagesServed, staleAdvance>>
    /\ UNCHANGED ingestVars
    /\ UNCHANGED <<call_time, storeVars>>
    /\ UNCHANGED concVars

\* iterate_items(batch_size), lines 310-319
IterateItemsCall ==
    \E p \in 1..MaxPageSize : \E n \in DocCounts(p) :
        StartIteration("iterate_items", p, <<>>, n)

\* scroll_items(q), lines 360-369
ScrollItemsCall ==
    \E n \in DocCounts(ScrollItemsSize) :
        StartIteration("scroll_items", ScrollItemsSize, <<>>, n)

\* iterate_query_items(q, sort, max_size), lines 425-439
IterateQueryItemsCall ==
    \E n \in DocCounts(QueryItemsSize), m \in MaxSizeArgs(QueryItemsSize) :
        StartIteration("iterate_query_items", QueryItemsSize, m, n)

\* scroll_items_by_size(dsl_query, scroll_size, max_size), lines 492-495
ScrollItemsBySizeCall ==
    \E p \in 1..MaxPageSize : \E n \in DocCounts(p), m \in MaxSizeArgs(p) :
        StartIteration("scroll_items_by_size", p, m, n)

\* line 442: max_size is not None and cnt > max_size
QueryItemsReachedMaxNever(c, m) == FALSE
QueryItemsReachedMaxAtMax(c, m) == m # <<>> /\ c >= m[1]
QueryItemsReachedMax(c, m) == m # <<>> /\ c > m[1]

\* line 470: max_size is not None and cnt > max_size
ScrollReachedMax(c, m) == m # <<>> /\ c > m[1]

\* line 497: max_size is not None and cnt > max_size
BySizeReachedMax(c, m) == m # <<>> /\ c > m[1]

\* line 527: max_size is not None and cnt > max_size
FastReachedMax(c, m) == m # <<>> /\ c > m[1]

\* _scroll_items is handed max_size by iterate_query_items only (line 439)
InnerMaxSize == IF variant = "iterate_query_items" THEN max_size ELSE <<>>

\* A value v yielded by _scroll_items passes through the public iterator:
\* iterate_items (lines 318-319) and scroll_items (line 366) hand it on;
\* iterate_query_items (lines 439-441) counts it and hands it on.  When the
\* consumer comes back, iterate_query_items breaks if cnt > max_size (lines
\* 442-444), leaving _scroll_items suspended; otherwise _scroll_items goes
\* on from its yield.
OuterStops == variant = "iterate_query_items" /\ QueryItemsReachedMax(ocnt, max_size)

\* lines 470-473: back from the yield of line 469, _scroll_items itself
\* finds cnt > max_size
InnerBreaks == hit_idx >= 1 /\ ScrollReachedMax(scnt, InnerMaxSize)

Deliver(v) ==
    /\ out' = Append(out, v)
    /\ ocnt' = IF variant = "iterate_query_items" THEN ocnt + 1 ELSE ocnt

\* line 454: if not num_items
NoItemsNever(n) == FALSE
NoItems(n) == n = 0

\* lines 450-456 of _scroll_items: the search request
ScrollItemsSearch ==
    /\ pc = "search"
    /\ variant \in PerDocVariants
    /\ indexExists
    /\ EngineSearch
    /\ num_items' = num_matching
    /\ scnt' = 0
    /\ hit_idx' = 0
    /\ pc' = IF NoItems(num_items') THEN "yield_none" ELSE "first_page"
    /\ UNCHANGED <<raised, variant, page_size, max_size, has_next, scroll_id, ocnt, out>>
    /\ UNCHANGED ingestVars
    /\ UNCHANGED <<call_time, storeVars>>
    /\ UNCHANGED concVars

\* line 455: yield None
ScrollItemsYieldNone ==
    /\ pc = "yield_none"
    /\ Deliver(None)
    /\ pc' = "first_page"
    /\ UNCHANGED <<raised, variant, page_size, max_size, num_items, hits, hit_idx, scnt,
                   has_next, scroll_id, res_scroll_id, num_matching, scrollPos, handle,
                   searchCalls, scrollCalls, pagesServed, staleAdvance>>
    /\ UNCHANGED ingestVars
    /\ UNCHANGED <<call_time, storeVars>>
    /\ UNCHANGED concVars

\* lines 442-444: the consumer comes back for a value after more than
\* max_size of them: iterate_query_items ends, _scroll_items is not resumed
IterateQueryItemsBreak ==
    /\ pc \in {"first_page", "scroll_page", "page_end"}
    /\ OuterStops
    /\ pc' = "done"
    /\ UNCHANGED <<raised, scrollVars>>
    /\ UNCHANGED ingestVars
    /\ UNCHANGED <<call_time, storeVars>>
    /\ UNCHANGED concVars

\* lines 458-460: a hit of the first page is yielded
ScrollItemsFirstPageHit ==
    /\ pc = "first_page"
    /\ ~OuterStops
    /\ hit_idx < Len(hits)
    /\ scnt' = scnt + 1
    /\ hit_idx' = hit_idx + 1
    /\ Deliver(Source(hits[hit_idx + 1]))
    /\ pc' = "first_page"
    /\ UNCHANGED <<raised, variant, page_size, max_size, num_items, hits,
                   has_next, scroll_id, res_scroll_id, num_matching, scrollPos, handle,
                   searchCalls, scrollCalls, pagesServed, staleAdvance>>
    /\ UNCHANGED ingestVars
    /\ UNCHANGED <<call_time, storeVars>>
    /\ UNCHANGED concVars

\* line 462: has_next = True
HasNextInitiallyFalse == FALSE
HasNextInitially == TRUE

\* lines 461-462: the first page is used up
ScrollItemsEnterLoop ==
    /\ pc = "first_page"
    /\ ~OuterStops
    /\ hit_idx = Len(hits)
    /\ scroll_id' = res_scroll_id
    /\ has_next' = HasNextInitially
    /\ pc' = "while"
    /\ UNCHANGED <<raised, variant, page_size, max_size, num_items, hits, hit_idx, scnt,
                   res_scroll_id, ocnt, out, num_matching, scrollPos, handle,
                   searchCalls, scrollCalls, pagesServed, staleAdvance>>
    /\ UNCHANGED ingestVars
    /\ UNCHANGED <<call_time, storeVars>>
    /\ UNCHANGED concVars

\* lines 463-465: while has_next: the scroll request
ScrollItemsScroll ==
    /\ pc = "while"
    /\ has_next
    /\ has_next' = FALSE
    /\ EngineScroll(scroll_id)
    /\ hit_idx' = 0
    /\ pc' = "scroll_page"
    /\ UNCHANGED <<raised, variant, page_size, max_size, num_items, scnt, scroll_id,
                   ocnt, out>>
    /\ UNCHANGED ingestVars
    /\ UNCHANGED <<call_time, storeVars>>
    /\ UNCHANGED concVars

\* lines 466-473: a hit of a later page is yielded; when the consumer comes
\* back, the loop over the page breaks once cnt > max_size
ScrollItemsScrollHit ==
    /\ pc = "scroll_page"
    /\ ~OuterStops
    /\ ~InnerBreaks
    /\ hit_idx < Len(hits)
    /\ has_next' = TRUE
    /\ scnt' = scnt + 1
    /\ hit_idx' = hit_idx + 1
    /\ Deliver(Source(hits[hit_idx + 1]))
    /\ pc' = IF hit_idx' = Len(hits) THEN "page_end" ELSE "scroll_page"
    /\ UNCHANGED <<raised, variant, page_size, max_size, num_items, hits,
                   scroll_id, res_scroll_id, num_matching, scrollPos, handle,
                   searchCalls, scrollCalls, pagesServed, staleAdvance>>
    /\ UNCHANGED ingestVars
    /\ UNCHANGED <<call_time, storeVars>>
    /\ UNCHANGED concVars

\* line 474: scroll_id = res.get('_scroll_id')
KeptScrollId(old, res_id) == old
NextScrollId(old, res_id) == res_id

\* line 474: scroll_id = res.get('_scroll_id'), after the loop over the page
\* (at once when the page is empty), or after the break of lines 470-473,
\* which sets has_next to False
ScrollItemsPageEnd ==
    /\ \/ pc = "page_end"
       \/ pc = "scroll_page" /\ (Len(hits) = 0 \/ InnerBreaks)
    /\ ~OuterStops
    /\ has_next' = IF InnerBreaks THEN FALSE ELSE has_next
    /\ scroll_id' = NextScrollId(scroll_id, res_scroll_id)
    /\ pc' = "while"
    /\ UNCHANGED <<raised, variant, page_size, max_size, num_items, hits, hit_idx, scnt,
                   res_scroll_id, ocnt, out, num_matching, scrollPos, handle,
                   searchCalls, scrollCalls, pagesServed, staleAdvance>>
    /\ UNCHANGED ingestVars
    /\ UNCHANGED <<call_time, storeVars>>
    /\ UNCHANGED concVars

\* line 463: has_next is False: the generator ends
ScrollItemsStop ==
    /\ pc = "while"
    /\ ~has_next
    /\ pc' = "done"
    /\ UNCHANGED <<raised, scrollVars>>
    /\ UNCHANGED ingestVars
    /\ UNCHANGED <<call_time, storeVars>>
    /\ UNCHANGED concVars

\* line 511: if not num_items
FastNoItems(n) == n = 0

\* lines 507-514 of _scroll_items_fast: the search request
FastSearch ==
    /\ pc = "search"
    /\ variant = "scroll_items_by_size"
    /\ indexExists
    /\ EngineSearch
    /\ num_items' = num_matching
    /\ scnt' = 0
    /\ pc' = IF FastNoItems(num_items') THEN "fast_yield_none" ELSE "fast_first_page"
    /\ UNCHANGED <<raised, variant, page_size, max_size, hit_idx, has_next, scroll_id,
                   ocnt, out>>
    /\ UNCHANGED ingestVars
    /\ UNCHANGED <<call_time, storeVars>>
    /\ UNCHANGED concVars

\* line 512: yield None; scroll_items_by_size takes len(r) of it (line 496),
\* which raises TypeError
FastYieldNone ==
    /\ pc = "fast_yield_none"
    /\ raised' = "TypeError"
    /\ pc' = "raised"
    /\ UNCHANGED scrollVars
    /\ UNCHANGED <<call_time, storeVars>>
    /\ UNCHANGED ingestVars
    /\ UNCHANGED <<call_time, storeVars>>
    /\ UNCHANGED concVars

\* lines 496-501 of scroll_items_by_size: a page r of _scroll_items_fast is
\* counted, then either ends the iteration or is handed to the consumer
BySizeStops(r) == BySizeReachedMax(ocnt + Len(r), max_size)

BySizeDeliver(r) ==
    /\ ocnt' = ocnt + Len(r)
    /\ out' = IF BySizeStops(r) THEN out ELSE Append(out, IdPage(r))

\* lines 515-516 and 496-501: the first page is yielded to
\* scroll_items_by_size, which ends the iteration or hands it to the
\* consumer
FastFirstPage ==
    /\ pc = "fast_first_page"
    /\ BySizeDeliver(hits)
    /\ pc' = IF BySizeStops(hits) THEN "done" ELSE "fast_first_yielded"
    /\ UNCHANGED <<raised, variant, page_size, max_size, num_items, hits, hit_idx,
                   scnt, has_next, scroll_id, res_scroll_id, num_matching, scrollPos,
                   handle, searchCalls, scrollCalls, pagesServed, staleAdvance>>
    /\ UNCHANGED ingestVars
    /\ UNCHANGED <<call_time, storeVars>>
    /\ UNCHANGED concVars

\* lines 517-518: the consumer asks for the next page: the first page is
\* counted and the scroll id taken from the search response
FastFirstPageResume ==
    /\ pc = "fast_first_yielded"
    /\ scnt' = scnt + Len(hits)
    /\ scroll_id' = res_scroll_id
    /\ pc' = "fast_loop"
    /\ UNCHANGED <<raised, variant, page_size, max_size, num_items, hits, hit_idx,
                   has_next, res_scroll_id, ocnt, out, num_matching, scrollPos, handle,
                   searchCalls, scrollCalls, pagesServed, staleAdvance>>
    /\ UNCHANGED ingestVars
    /\ UNCHANGED <<call_time, storeVars>>
    /\ UNCHANGED concVars

\* lines 519-521: the scroll request
FastScroll ==
    /\ pc = "fast_loop"
    /\ EngineScroll(scroll_id)
    /\ pc' = "fast_page"
    /\ UNCHANGED <<raised, variant, page_size, max_size, num_items, hit_idx, scnt,
                   has_next, scroll_id, ocnt, out>>
    /\ UNCHANGED ingestVars
    /\ UNCHANGED <<call_time, storeVars>>
    /\ UNCHANGED concVars

\* lines 522-524: an empty page ends the generator
FastStopEmpty ==
    /\ pc = "fast_page"
    /\ hits = <<>>
    /\ pc' = "done"
    /\ UNCHANGED <<raised, scrollVars>>
    /\ UNCHANGED ingestVars
    /\ UNCHANGED <<call_time, storeVars>>
    /\ UNCHANGED concVars

\* lines 525-531 and 496-501: a later page is counted, then either ends
\* the generator or is yielded to scroll_items_by_size, which ends the
\* iteration or hands it to the consumer
FastPage ==
    /\ pc = "fast_page"
    /\ hits # <<>>
    /\ scnt' = scnt + Len(hits)
    /\ IF FastReachedMax(scnt', max_size)
       THEN /\ pc' = "done"
            /\ UNCHANGED <<ocnt, out>>
       ELSE /\ BySizeDeliver(hits)
            /\ pc' = IF BySizeStops(hits) THEN "done" ELSE "fast_page_yielded"
    /\ UNCHANGED <<raised, variant, page_size, max_size, num_items, hits, hit_idx,
                   has_next, scroll_id, res_scroll_id, num_matching, scrollPos, handle,
                   searchCalls, scrollCalls, pagesServed, staleAdvance>>
    /\ UNCHANGED ingestVars
    /\ UNCHANGED <<call_time, storeVars>>
    /\ UNCHANGED concVars

\* line 532: the consumer asks for the next page: the scroll id is taken
\* from the last scroll response
FastPageResume ==
    /\ pc = "fast_page_yielded"
    /\ scroll_id' = res_scroll_id
    /\ pc' = "fast_loop"
    /\ UNCHANGED <<raised, variant, page_size, max_size, num_items, hits, hit_idx, scnt,
                   has_next, res_scroll_id, ocnt, out, num_matching, scrollPos, handle,
                   searchCalls, scrollCalls, pagesServed, staleAdvance>>
    /\ UNCHANGED ingestVars
    /\ UNCHANGED <<call_time, storeVars>>
    /\ UNCHANGED concVars

NextScroll ==
    \/ IterateItemsCall
    \/ ScrollItemsCall
    \/ IterateQueryItemsCall
    \/ ScrollItemsBySizeCall
    \/ ScrollItemsSearch
    \/ ScrollItemsYieldNone
    \/ IterateQueryItemsBreak
    \/ ScrollItemsFirstPageHit
    \/ ScrollItemsEnterLoop
    \/ ScrollItemsScroll
    \/ ScrollItemsScrollHit
    \/ ScrollItemsPageEnd
    \/ ScrollItemsStop
    \/ FastSearch
    \/ FastYieldNone
    \/ FastFirstPage
    \/ FastFirstPageResume
    \/ FastScroll
    \/ FastStopEmpty
    \/ FastPage
    \/ FastPageResume

SpecScroll == Init /\ [][NextScroll]_vars


(***************************************************************************)
(* The document operations: insert_item, update_item, update_items,        *)
(* delete_item, get_item, get_items, query_items.  The engine keeps the    *)
(* documents of the index by _id and logs the requests of the running      *)
(* call.                                                                   *)
(***************************************************************************)
Ids == 1..MaxIds

\* the JSON null a script assigns (ctx._source[...] = null); no input value equals it
Null == -1

\* the value the update parameters carry
NewValue == 2

\* a document as insert_item wrote it earlier: id, indexed, a, and possibly b
StoredDocs(i) ==
    { [f \in {"id", "indexed", "a"} \cup fs |->
          IF f = "id" THEN i ELSE IF f = "indexed" THEN 0 ELSE 1] :
        fs \in SUBSET {"b"} }

\* the indexes a call can find: every id absent or holding such a document
Stores ==
    UNION { { st \in [present -> UNION { StoredDocs(i) : i \in Ids }] :
                \A i \in present : st[i] \in StoredDocs(i) } :
            present \in SUBSET Ids }

\* the documents a caller passes to insert_item: some of id, indexed, a
InsertDocs ==
    UNION { { [f \in fs |-> IF f = "id" THEN i ELSE IF f = "indexed" THEN 0 ELSE NewValue] :
                i \in Ids } :
            fs \in SUBSET {"id", "indexed", "a"} }

\* the update_fields a caller passes: some of id, a, c, each with the new value
UpdateParams == UNION { { [f \in fs |-> NewValue] } : fs \in SUBSET {"id", "a", "c"} }

UpdateTypes == {"partial", "full", "other"}

(***************************************************************************)
(* _get_update_script(update_type, strict), src/esdb.py:85-141, and the    *)
(* effect of the painless script it returns on ctx._source.                *)
(***************************************************************************)
GetUpdateScriptIgnoringStrict(update_type, strict) ==
    IF update_type = "partial" THEN "partial"
    ELSE IF update_type = "full" THEN "full"
    ELSE "ValueError"
GetUpdateScript(update_type, strict) ==
    IF update_type = "partial" /\ strict THEN "partial_strict"
    ELSE IF update_type = "partial" /\ ~strict THEN "partial"
    ELSE IF update_type = "full" /\ strict THEN "full_strict"
    ELSE IF update_type = "full" /\ ~strict THEN "full"
    ELSE "ValueError"

\* for (entry in ctx._source.entrySet()) { if (entry.getKey() != 'id') { ctx._source[entry.getKey()] = null; } }
NullOutNothing(source) == source
NullOut(source) == [f \in DOMAIN source |-> IF f # "id" THEN Null ELSE source[f]]

\* for (entry in params.entrySet()) { ctx._source[entry.getKey()] = entry.getValue(); }
SetAll(source, params) ==
    [f \in DOMAIN source \cup DOMAIN params |->
        IF f \in DOMAIN params THEN params[f] ELSE source[f]]

\* for (entry in params.entrySet()) { if (ctx._source.containsKey(entry.getKey())) { ... } }
SetWithoutContainsKey(source, params) == SetAll(source, params)
SetExisting(source, params) ==
    [f \in DOMAIN source |-> IF f \in DOMAIN params THEN params[f] ELSE source[f]]

RunScript(script, source, params) ==
    IF script = "partial_strict" THEN SetExisting(source, params)
    ELSE IF script = "partial" THEN SetAll(source, params)
    ELSE IF script = "full_strict" THEN SetExisting(NullOut(source), params)
    ELSE SetAll(NullOut(source), params)

(***************************************************************************)
(* The engine's side of the document requests.                             *)
(***************************************************************************)
Logged(req) == reqLog' = Append(reqLog, req)

\* es_client.index(index, id, body): the document is written under id; a
\* missing index is created by the write
EngineIndex(id, body) ==
    /\ store' = [i \in DOMAIN store \cup {id} |-> IF i = id THEN body ELSE store[i]]
    /\ indexExists' = TRUE

\* es_client.indices.refresh(index)
EngineRefresh == Logged("refresh")

\* the call starts: nothing has been asked of the engine yet
StartCall(c) ==
    /\ call' = c
    /\ pc' = c.op
    /\ reqLog' = <<>>
    /\ UNCHANGED <<raised, ret, store, indexExists, engineFailed, warned>>
    /\ UNCHANGED <<ingestVars, scrollVars>>

Return(v) ==
    /\ ret' = v
    /\ pc' = "returned"
    /\ raised' = raised

Raise(e) ==
    /\ raised' = e
    /\ pc' = "raised"
    /\ ret' = ret

(***************************************************************************)
(* insert_item(item), src/esdb.py:249-260                                  *)
(***************************************************************************)
InsertItemCall ==
    /\ pc = "idle"
    /\ \E d \in InsertDocs : StartCall([op |-> "insert_item", item |-> d])
    /\ \E s \in 1..MaxClock : call_time' = s
    /\ UNCHANGED concVars

\* line 250: 'id' not in item
IdMissingNever(item) == FALSE
IdMissing(item) == ~HasField(item, "id")

\* lines 250-251: raise RuntimeError('id is missing.')
InsertItemMissingId ==
    /\ pc = "insert_item"
    /\ IdMissing(call.item)
    /\ Raise("RuntimeError")
    /\ UNCHANGED <<call_time, call, store, indexExists, reqLog, engineFailed, warned>>
    /\ UNCHANGED <<ingestVars, scrollVars>>
    /\ UNCHANGED concVars

\* lines 254-259: the item is stamped with the time read now, then written
InsertItemIndex ==
    /\ pc = "insert_item"
    /\ ~IdMissing(call.item)
    /\ \E t \in call_time..MaxClock :
          call' = [call EXCEPT !.item = Stamp(@, t)]
    /\ IF HasField(call'.item, "id")
       THEN /\ EngineIndex(call'.item["id"], call'.item)
            /\ Logged("index")
            /\ pc' = "insert_item_refresh"
            /\ UNCHANGED raised
       ELSE /\ raised' = "KeyError"
            /\ pc' = "raised"
            /\ UNCHANGED <<store, indexExists, reqLog>>
    /\ UNCHANGED <<call_time, ret, engineFailed, warned>>
    /\ UNCHANGED <<ingestVars, scrollVars>>
    /\ UNCHANGED concVars

\* line 260: self.refresh(); the call returns None
InsertItemRefresh ==
    /\ pc = "insert_item_refresh"
    /\ EngineRefresh
    /\ Return(None)
    /\ UNCHANGED <<call_time, call, store, indexExists, engineFailed, warned>>
    /\ UNCHANGED <<ingestVars, scrollVars>>
    /\ UNCHANGED concVars


(***************************************************************************)
(* update_item(item_id, update_fields, refresh, update_type, strict),      *)
(* src/esdb.py:189-217                                                     *)
(***************************************************************************)
\* lines 155-156, 200-201: update_fields of None is the empty mapping
Params(c) == IF c.update_fields = None THEN [f \in {} |-> NewValue] ELSE c.update_fields

UpdateItemCall ==
    /\ pc = "idle"
    /\ \E i \in Ids, m \in UpdateParams \cup {None}, r \in BOOLEAN,
          ut \in UpdateTypes, st \in BOOLEAN :
          StartCall([op |-> "update_item", item_id |-> i, update_fields |-> m,
                     refresh |-> r, update_type |-> ut, strict |-> st])
    /\ UNCHANGED call_time
    /\ UNCHANGED concVars

\* line 206 -> line 141: raise ValueError('Invalid update_type or strict value')
UpdateItemBadType ==
    /\ pc = "update_item"
    /\ GetUpdateScript(call.update_type, call.strict) = "ValueError"
    /\ Raise("ValueError")
    /\ UNCHANGED <<call_time, call, store, indexExists, reqLog, engineFailed, warned>>
    /\ UNCHANGED <<ingestVars, scrollVars>>
    /\ UNCHANGED concVars

\* lines 214-217, 184-187 and 306-308: if refresh: self.refresh(); return result
AfterUpdateNoRefresh(c, res) == Return(res)
AfterUpdate(c, res) ==
    IF c.refresh
    THEN /\ pc' = c.op \o "_refresh"
         /\ ret' = res
         /\ raised' = raised
    ELSE Return(res)

\* lines 209-212: the engine runs the script on the document of that id
UpdateItemUpdate ==
    /\ pc = "update_item"
    /\ GetUpdateScript(call.update_type, call.strict) # "ValueError"
    /\ call.item_id \in DOMAIN store
    /\ store' = [store EXCEPT ![call.item_id] =
                    RunScript(GetUpdateScript(call.update_type, call.strict), @, Params(call))]
    /\ Logged("update")
    /\ AfterUpdate(call, [result |-> "updated"])
    /\ UNCHANGED <<call_time, call, indexExists, engineFailed, warned>>
    /\ UNCHANGED <<ingestVars, scrollVars>>
    /\ UNCHANGED concVars

\* lines 209-212: the engine has no document of that id: NotFoundError
UpdateItemNotFound ==
    /\ pc = "update_item"
    /\ GetUpdateScript(call.update_type, call.strict) # "ValueError"
    /\ call.item_id \notin DOMAIN store
    /\ Logged("update")
    /\ Raise("NotFoundError")
    /\ UNCHANGED <<call_time, call, store, indexExists, engineFailed, warned>>
    /\ UNCHANGED <<ingestVars, scrollVars>>
    /\ UNCHANGED concVars

\* lines 214-217: self.refresh(); return result
UpdateItemRefresh ==
    /\ pc = "update_item_refresh"
    /\ EngineRefresh
    /\ Return(ret)
    /\ UNCHANGED <<call_time, call, store, indexExists, engineFailed, warned>>
    /\ UNCHANGED <<ingestVars, scrollVars>>
    /\ UNCHANGED concVars

(***************************************************************************)
(* update_items(query, id_list, update_fields, refresh, update_type,       *)
(* strict), src/esdb.py:143-187                                            *)
(***************************************************************************)
MatchAll == [match_all |-> TRUE]

\* lines 164-170: {'bool': {'must': [{'terms': {'id': id_list}}]}}
TermsQuery(ids) == [terms_id |-> ids]

AllIds == [k \in 1..MaxIds |-> k]

\* the id_list arguments: None, lists (empty, one id, every id), and a tuple
IdLists == {None, [list |-> <<>>], [list |-> <<1>>], [list |-> AllIds], [tuple |-> <<1>>]}

\* line 161: not isinstance(id_list, list) or len(id_list) == 0
BadIdList(id_list) == IF HasField(id_list, "list") THEN Len(id_list.list) = 0 ELSE TRUE

\* the documents a query selects
Matches(query, doc) ==
    IF HasField(query, "match_all") THEN TRUE
    ELSE \E k \in 1..Len(query.terms_id) : doc["id"] = query.terms_id[k]

UpdateItemsCall ==
    /\ pc = "idle"
    /\ \E q \in {None, MatchAll}, l \in IdLists, m \in UpdateParams \cup {None},
          r \in BOOLEAN, ut \in UpdateTypes, st \in BOOLEAN :
          StartCall([op |-> "update_items", query |-> q, id_list |-> l,
                     update_fields |-> m, refresh |-> r, update_type |-> ut, strict |-> st])
    /\ UNCHANGED call_time
    /\ UNCHANGED concVars

\* lines 158-162: raise ValueError('id_list should be a list of ids')
UpdateItemsBadIdList ==
    /\ pc = "update_items"
    /\ call.id_list # None
    /\ BadIdList(call.id_list)
    /\ Raise("ValueError")
    /\ UNCHANGED <<call_time, call, store, indexExists, reqLog, engineFailed, warned>>
    /\ UNCHANGED <<ingestVars, scrollVars>>
    /\ UNCHANGED concVars

\* lines 158-170: an id_list replaces the query
Query(c) ==
    IF c.id_list # None
    THEN TermsQuery(IF HasField(c.id_list, "list") THEN c.id_list.list ELSE c.id_list.tuple)
    ELSE c.query

\* line 172: query is None
NoQuery(c) == Query(c) = None

\* lines 172-173: raise ValueError('Either query or id_list should be provided')
UpdateItemsNoQuery ==
    /\ pc = "update_items"
    /\ ~(call.id_list # None /\ BadIdList(call.id_list))
    /\ NoQuery(call)
    /\ Raise("ValueError")
    /\ UNCHANGED <<call_time, call, store, indexExists, reqLog, engineFailed, warned>>
    /\ UNCHANGED <<ingestVars, scrollVars>>
    /\ UNCHANGED concVars

\* line 176 -> line 141: raise ValueError('Invalid update_type or strict value')
UpdateItemsBadType ==
    /\ pc = "update_items"
    /\ ~(call.id_list # None /\ BadIdList(call.id_list))
    /\ ~NoQuery(call)
    /\ GetUpdateScript(call.update_type, call.strict) = "ValueError"
    /\ Raise("ValueError")
    /\ UNCHANGED <<call_time, call, store, indexExists, reqLog, engineFailed, warned>>
    /\ UNCHANGED <<ingestVars, scrollVars>>
    /\ UNCHANGED concVars

\* lines 181-182: the engine runs the script on every document the query selects
UpdateItemsUpdate ==
    /\ pc = "update_items"
    /\ ~(call.id_list # None /\ BadIdList(call.id_list))
    /\ ~NoQuery(call)
    /\ GetUpdateScript(call.update_type, call.strict) # "ValueError"
    /\ indexExists
    /\ store' = [i \in DOMAIN store |->
                    IF Matches(Query(call), store[i])
                    THEN RunScript(GetUpdateScript(call.update_type, call.strict),
                                   store[i], Params(call))
                    ELSE store[i]]
    /\ Logged("update_by_query")
    /\ AfterUpdate(call, [updated |->
            Cardinality({i \in DOMAIN store : Matches(Query(call), store[i])})])
    /\ UNCHANGED <<call_time, call, indexExists, engineFailed, warned>>
    /\ UNCHANGED <<ingestVars, scrollVars>>
    /\ UNCHANGED concVars

\* lines 181-182: the index is absent: NotFoundError
UpdateItemsNotFound ==
    /\ pc = "update_items"
    /\ ~(call.id_list # None /\ BadIdList(call.id_list))
    /\ ~NoQuery(call)
    /\ GetUpdateScript(call.update_type, call.strict) # "ValueError"
    /\ ~indexExists
    /\ Logged("update_by_query")
    /\ Raise("NotFoundError")
    /\ UNCHANGED <<call_time, call, store, indexExists, engineFailed, warned>>
    /\ UNCHANGED <<ingestVars, scrollVars>>
    /\ UNCHANGED concVars

\* lines 184-187: self.refresh(); return result
UpdateItemsRefresh ==
    /\ pc = "update_items_refresh"
    /\ EngineRefresh
    /\ Return(ret)
    /\ UNCHANGED <<call_time, call, store, indexExists, engineFailed, warned>>
    /\ UNCHANGED <<ingestVars, scrollVars>>
    /\ UNCHANGED concVars

(***************************************************************************)
(* delete_item(item_id), src/esdb.py:219-227                               *)
(***************************************************************************)
DeleteItemCall ==
    /\ pc = "idle"
    /\ \E i \in Ids : StartCall([op |-> "delete_item", item_id |-> i])
    /\ UNCHANGED call_time
    /\ UNCHANGED concVars

\* lines 225-226: the engine removes the document of that id
DeleteItemDelete ==
    /\ pc = "delete_item"
    /\ call.item_id \in DOMAIN store
    /\ store' = [i \in DOMAIN store \ {call.item_id} |-> store[i]]
    /\ Logged("delete")
    /\ pc' = "delete_item_refresh"
    /\ UNCHANGED <<call_time, raised, call, ret, indexExists, engineFailed, warned>>
    /\ UNCHANGED <<ingestVars, scrollVars>>
    /\ UNCHANGED concVars

\* lines 225-226: the engine has no document of that id: NotFoundError
DeleteItemNotFound ==
    /\ pc = "delete_item"
    /\ call.item_id \notin DOMAIN store
    /\ Logged("delete")
    /\ Raise("NotFoundError")
    /\ UNCHANGED <<call_time, call, store, indexExists, engineFailed, warned>>
    /\ UNCHANGED <<ingestVars, scrollVars>>
    /\ UNCHANGED concVars

\* line 227: self.refresh(); the call returns None
DeleteItemRefresh ==
    /\ pc = "delete_item_refresh"
    /\ EngineRefresh
    /\ Return(None)
    /\ UNCHANGED <<call_time, call, store, indexExists, engineFailed, warned>>
    /\ UNCHANGED <<ingestVars, scrollVars>>
    /\ UNCHANGED concVars

(***************************************************************************)
(* get_item(item_id, ignore_not_found), src/esdb.py:229-237                *)
(***************************************************************************)
GetItemCall ==
    /\ pc = "idle"
    /\ \E i \in Ids, ign \in BOOLEAN :
          StartCall([op |-> "get_item", item_id |-> i, ignore_not_found |-> ign])
    /\ UNCHANGED call_time
    /\ UNCHANGED concVars

\* lines 231-233: return item['_source']
GetItemFound ==
    /\ pc = "get_item"
    /\ call.item_id \in DOMAIN store
    /\ Logged("get")
    /\ Return(store[call.item_id])
    /\ UNCHANGED <<call_time, call, store, indexExists, engineFailed, warned>>
    /\ UNCHANGED <<ingestVars, scrollVars>>
    /\ UNCHANGED concVars

\* lines 234-237: the exception is caught; a warning unless ignore_not_found; return None
GetItemHandlerRaising(ignore_not_found) ==
    /\ warned' = ~ignore_not_found
    /\ IF ignore_not_found THEN Return(None) ELSE Raise("NotFoundError")
GetItemHandler(ignore_not_found) ==
    /\ warned' = ~ignore_not_found
    /\ Return(None)

\* lines 231-232 raise NotFoundError: no document of that id
GetItemNotFound ==
    /\ pc = "get_item"
    /\ call.item_id \notin DOMAIN store
    /\ Logged("get")
    /\ GetItemHandler(call.ignore_not_found)
    /\ UNCHANGED <<call_time, call, store, indexExists, engineFailed>>
    /\ UNCHANGED <<ingestVars, scrollVars>>
    /\ UNCHANGED concVars

(***************************************************************************)
(* get_items(item_ids), src/esdb.py:239-247                                *)
(***************************************************************************)
GetItemsCall ==
    /\ pc = "idle"
    /\ \E l \in {<<i>> : i \in Ids} \cup {AllIds} :
          StartCall([op |-> "get_items", item_ids |-> l])
    /\ UNCHANGED call_time
    /\ UNCHANGED concVars

\* lines 241-244: [item.get('_source') for item in res['docs']]
GetItemsReturn ==
    /\ pc = "get_items"
    /\ indexExists
    /\ Logged("mget")
    /\ Return([docs |-> [k \in 1..Len(call.item_ids) |->
                    IF call.item_ids[k] \in DOMAIN store
                    THEN store[call.item_ids[k]] ELSE None]])
    /\ UNCHANGED <<call_time, call, store, indexExists, engineFailed, warned>>
    /\ UNCHANGED <<ingestVars, scrollVars>>
    /\ UNCHANGED concVars

\* lines 245-247: the index is absent: NotFoundError is caught, warning, return None
GetItemsIndexMissing ==
    /\ pc = "get_items"
    /\ ~indexExists
    /\ Logged("mget")
    /\ warned' = TRUE
    /\ Return(None)
    /\ UNCHANGED <<call_time, call, store, indexExists, engineFailed>>
    /\ UNCHANGED <<ingestVars, scrollVars>>
    /\ UNCHANGED concVars

(***************************************************************************)
(* query_items(q, sort, start, size), src/esdb.py:321-348, for the q that  *)
(* select every document (None and '*')                                    *)
(***************************************************************************)
\* the ids of the index in the order the engine lists them
IdsOf(st) ==
    CHOOSE s \in [1..Cardinality(DOMAIN st) -> DOMAIN st] :
        \A j, k \in 1..Cardinality(DOMAIN st) : j < k => s[j] < s[k]

QueryItemsCall ==
    /\ pc = "idle"
    /\ \E q \in {None, [q |-> "*"]}, st \in 0..MaxIds, sz \in 0..MaxIds :
          StartCall([op |-> "query_items", q |-> q, start |-> st, size |-> sz])
    /\ UNCHANGED call_time
    /\ UNCHANGED concVars

\* lines 341-348: total is the number of matching documents, results the
\* sources of the hits from 'from' on, at most 'size' of them
QueryItemsSearch ==
    /\ pc = "query_items"
    /\ indexExists
    /\ Logged("search")
    /\ LET ids == IdsOf(store)
           n == Len(ids)
           lo == IF call.start < n THEN call.start ELSE n
           hi == IF call.start + call.size < n THEN call.start + call.size ELSE n
       IN Return([total |-> n, results |-> [k \in 1..(hi - lo) |-> store[ids[lo + k]]]])
    /\ UNCHANGED <<call_time, call, store, indexExists, engineFailed, warned>>
    /\ UNCHANGED <<ingestVars, scrollVars>>
    /\ UNCHANGED concVars

\* lines 341-342: the index is absent: NotFoundError
QueryItemsIndexMissing ==
    /\ pc = "query_items"
    /\ ~indexExists
    /\ Logged("search")
    /\ Raise("NotFoundError")
    /\ UNCHANGED <<call_time, call, store, indexExists, engineFailed, warned>>
    /\ UNCHANGED <<ingestVars, scrollVars>>
    /\ UNCHANGED concVars

(***************************************************************************)
(* bulk(bulk_body, refresh), src/esdb.py:302-308, and refresh(),           *)
(* src/esdb.py:489-490                                                     *)
(***************************************************************************)
\* one action of a bulk body with its source line, or a delete action
IndexAction(i, src) == [action |-> "index", _id |-> i, _source |-> src]
DeleteAction(i) == [action |-> "delete", _id |-> i]

\* the bulk bodies a caller passes: index and delete actions over the ids;
\* the sources are sent as they are, without an indexed field
BulkBodies ==
    { <<IndexAction(MaxIds, [id |-> MaxIds, a |-> NewValue])>>,
      <<DeleteAction(1)>>,
      <<IndexAction(MaxIds, [id |-> MaxIds, a |-> NewValue]), DeleteAction(1)>>,
      <<DeleteAction(1), IndexAction(1, [id |-> 1, a |-> NewValue])>> }

\* engine: one action of a bulk request applied to the documents
BulkOp(st, op) ==
    IF op.action = "index"
    THEN [i \in DOMAIN st \cup {op._id} |-> IF i = op._id THEN op._source ELSE st[i]]
    ELSE [i \in DOMAIN st \ {op._id} |-> st[i]]

\* engine: the actions of a bulk request are applied in order
RECURSIVE BulkApply(_, _)
BulkApply(st, body) ==
    IF body = <<>> THEN st ELSE BulkApply(BulkOp(st, Head(body)), Tail(body))

\* engine: the response lists the result of every action
BulkResponse(st, body) ==
    [items |-> [k \in 1..Len(body) |->
        LET before == BulkApply(st, SubSeq(body, 1, k - 1))
        IN  IF body[k].action = "index"
            THEN IF body[k]._id \in DOMAIN before THEN "updated" ELSE "created"
            ELSE IF body[k]._id \in DOMAIN before THEN "deleted" ELSE "not_found"]]

BulkCall ==
    /\ pc = "idle"
    /\ \E b \in BulkBodies, r \in BOOLEAN :
          StartCall([op |-> "bulk", bulk_body |-> b, refresh |-> r])
    /\ UNCHANGED call_time
    /\ UNCHANGED concVars

\* lines 303-305: es_client.bulk; an index action creates a missing index,
\* a delete action does not; lines 306-308: if refresh: ...; return res
BulkRequest ==
    /\ pc = "bulk"
    /\ store' = BulkApply(store, call.bulk_body)
    /\ indexExists' = (indexExists \/ \E k \in 1..Len(call.bulk_body) :
                                         call.bulk_body[k].action = "index")
    /\ Logged("bulk")
    /\ AfterUpdate(call, BulkResponse(store, call.bulk_body))
    /\ UNCHANGED <<call_time, call, engineFailed, warned>>
    /\ UNCHANGED <<ingestVars, scrollVars>>
    /\ UNCHANGED concVars

\* lines 306-308: self.refresh(); return res
BulkRefresh ==
    /\ pc = "bulk_refresh"
    /\ indexExists
    /\ EngineRefresh
    /\ Return(ret)
    /\ UNCHANGED <<call_time, call, store, indexExists, engineFailed, warned>>
    /\ UNCHANGED <<ingestVars, scrollVars>>
    /\ UNCHANGED concVars

RefreshCall ==
    /\ pc = "idle"
    /\ StartCall([op |-> "refresh"])
    /\ UNCHANGED call_time
    /\ UNCHANGED concVars

\* line 490: es_client.indices.refresh; the call returns None
RefreshRequest ==
    /\ pc = "refresh"
    /\ indexExists
    /\ EngineRefresh
    /\ Return(None)
    /\ UNCHANGED <<call_time, call, store, indexExists, engineFailed, warned>>
    /\ UNCHANGED <<ingestVars, scrollVars>>
    /\ UNCHANGED concVars

\* line 490, from line 307 or called directly: the index is absent:
\* NotFoundError
RefreshIndexMissing ==
    /\ pc \in {"bulk_refresh", "refresh"}
    /\ ~indexExists
    /\ Logged("refresh")
    /\ Raise("NotFoundError")
    /\ UNCHANGED <<call_time, call, store, indexExists, engineFailed, warned>>
    /\ UNCHANGED <<ingestVars, scrollVars>>
    /\ UNCHANGED concVars

NextStore ==
    \/ InsertItemCall
    \/ InsertItemMissingId
    \/ InsertItemIndex
    \/ InsertItemRefresh
    \/ UpdateItemCall
    \/ UpdateItemBadType
    \/ UpdateItemUpdate
    \/ UpdateItemNotFound
    \/ UpdateItemRefresh
    \/ UpdateItemsCall
    \/ UpdateItemsBadIdList
    \/ UpdateItemsNoQuery
    \/ UpdateItemsBadType
    \/ UpdateItemsUpdate
    \/ UpdateItemsNotFound
    \/ UpdateItemsRefresh
    \/ DeleteItemCall
    \/ DeleteItemDelete
    \/ DeleteItemNotFound
    \/ DeleteItemRefresh
    \/ GetItemCall
    \/ GetItemFound
    \/ GetItemNotFound
    \/ GetItemsCall
    \/ GetItemsReturn
    \/ GetItemsIndexMissing
    \/ QueryItemsCall
    \/ QueryItemsSearch
    \/ QueryItemsIndexMissing
    \/ BulkCall
    \/ BulkRequest
    \/ BulkRefresh
    \/ RefreshCall
    \/ RefreshRequest
    \/ RefreshIndexMissing

\* the client is constructed over any of the indexes; an index without
\* documents may also have been deleted since
InitStore ==
    /\ InitClient
    /\ pc = "idle"
    /\ store \in Stores
    /\ indexExists \in (IF DOMAIN store = {} THEN BOOLEAN ELSE {TRUE})

SpecStore == InitStore /\ [][NextStore]_vars

(***************************************************************************)
(* The writer as a whole: the document operations and insert_items, over   *)
(* an index holding one document or an index that is absent.               *)
(***************************************************************************)
InitWrite ==
    /\ InitClient
    /\ pc = "idle"
    /\ \/ store = InitialStore /\ indexExists = TRUE
       \/ store = [i \in {} |-> None] /\ indexExists = FALSE

\* lines 291-292, 489-490: the refresh request after a batch that was not
\* accepted, over an index that is absent: the engine receives it and
\* answers NotFoundError
InsertItemsRefreshIndexMissing ==
    /\ pc = "insert_items_refresh"
    /\ ~indexExists
    /\ refreshCount' = refreshCount + 1
    /\ Logged("refresh")
    /\ Raise("NotFoundError")
    /\ UNCHANGED scrollVars
    /\ UNCHANGED <<call_time, call, store, indexExists, engineFailed, warned>>
    /\ UNCHANGED <<items, batch_size, refresh, current_time, cnt, batch, success,
                   failed, errors, result, bulkLog, lastExc>>
    /\ UNCHANGED concVars

NextWrite ==
    \/ NextStore
    \/ NextIngest
    \/ InsertItemsRefreshIndexMissing

SpecWrite == InitWrite /\ [][NextWrite]_vars

(***************************************************************************)
(* The index lifecycle: __init__, create(), delete(), src/esdb.py:51-83,   *)
(* for one client that makes up to MaxLifecycleCalls calls after its       *)
(* construction.                                                           *)
(***************************************************************************)
NoDocuments == [i \in {} |-> None]

\* line 51: the client is constructed over an index that exists or not
ConstructCall ==
    /\ pc = "unconstructed"
    /\ StartCall([op |-> "__init__", seq |-> 0])
    /\ UNCHANGED call_time
    /\ UNCHANGED concVars

\* a call of create() on the constructed client
CreateCall ==
    /\ pc = "returned"
    /\ call.seq < MaxLifecycleCalls
    /\ StartCall([op |-> "create", seq |-> call.seq + 1])
    /\ UNCHANGED call_time
    /\ UNCHANGED concVars

\* a call of delete() on the constructed client
DeleteCall ==
    /\ pc = "returned"
    /\ call.seq < MaxLifecycleCalls
    /\ StartCall([op |-> "delete", seq |-> call.seq + 1])
    /\ UNCHANGED call_time
    /\ UNCHANGED concVars

\* line 79: not self.es_client.indices.exists(index=self.db_name)
CreateNeededAlways(exists) == TRUE
CreateNeeded(exists) == ~exists

\* lines 79, 82-83 (from line 66 or from a call): the index exists, nothing to do
CreateExists ==
    /\ pc \in {"__init__", "create"}
    /\ ~CreateNeeded(indexExists)
    /\ Logged("exists")
    /\ Return(None)
    /\ UNCHANGED <<call_time, call, store, indexExists, engineFailed, warned>>
    /\ UNCHANGED <<ingestVars, scrollVars>>
    /\ UNCHANGED concVars

\* line 79 (from line 66 or from a call): the exists request is answered
\* no: the create request comes next
CreateAbsent ==
    /\ pc \in {"__init__", "create"}
    /\ CreateNeeded(indexExists)
    /\ Logged("exists")
    /\ pc' = "create_index"
    /\ UNCHANGED <<raised, ret>>
    /\ UNCHANGED <<call_time, call, store, indexExists, engineFailed, warned>>
    /\ UNCHANGED <<ingestVars, scrollVars>>
    /\ UNCHANGED concVars

\* lines 80-81: indices.create; the engine refuses to create an index that
\* exists (RequestError)
CreateIndex ==
    /\ pc = "create_index"
    /\ Logged("create")
    /\ IF indexExists
       THEN /\ Raise("RequestError")
            /\ UNCHANGED <<store, indexExists>>
       ELSE /\ indexExists' = TRUE
            /\ store' = NoDocuments
            /\ Return(None)
    /\ UNCHANGED <<call_time, call, engineFailed, warned>>
    /\ UNCHANGED <<ingestVars, scrollVars>>
    /\ UNCHANGED concVars

\* lines 72-73: indices.delete(ignore_unavailable=True): the index and its
\* documents are gone, an absent index is not an error
DeleteIndex ==
    /\ pc = "delete"
    /\ Logged("delete_index")
    /\ indexExists' = FALSE
    /\ store' = NoDocuments
    /\ Return(None)
    /\ UNCHANGED <<call_time, call, engineFailed, warned>>
    /\ UNCHANGED <<ingestVars, scrollVars>>
    /\ UNCHANGED concVars

\* before the construction: any of the indexes, or none
InitLifecycle ==
    /\ InitClient
    /\ pc = "unconstructed"
    /\ store \in Stores
    /\ indexExists \in (IF DOMAIN store = {} THEN BOOLEAN ELSE {TRUE})

NextLifecycle ==
    \/ ConstructCall
    \/ CreateCall
    \/ DeleteCall
    \/ CreateExists
    \/ CreateAbsent
    \/ CreateIndex
    \/ DeleteIndex

SpecLifecycle == InitLifecycle /\ [][NextLifecycle]_vars

(***************************************************************************)
(* An engine that can be unreachable: any request of any operation may     *)
(* raise a connectivity error (ConnectionError, ConnectionTimeout) in      *)
(* place of its answer.  A bulk submission that raises is the step         *)
(* InsertItemsSubmitFail above.                                            *)
(***************************************************************************)
\* the request raises and nothing catches it
RequestFails(req) ==
    /\ Logged(req)
    /\ engineFailed' = TRUE
    /\ Raise("ConnectionError")

\* lines 254-259: the item is stamped, then es_client.index raises
InsertItemIndexFails ==
    /\ pc = "insert_item"
    /\ ~IdMissing(call.item)
    /\ \E t \in call_time..MaxClock :
          call' = [call EXCEPT !.item = Stamp(@, t)]
    /\ RequestFails("index")
    /\ UNCHANGED <<call_time, store, indexExists, warned>>
    /\ UNCHANGED <<ingestVars, scrollVars>>
    /\ UNCHANGED concVars

\* lines 209-212: es_client.update raises
UpdateItemUpdateFails ==
    /\ pc = "update_item"
    /\ GetUpdateScript(call.update_type, call.strict) # "ValueError"
    /\ RequestFails("update")
    /\ UNCHANGED <<call_time, call, store, indexExists, warned>>
    /\ UNCHANGED <<ingestVars, scrollVars>>
    /\ UNCHANGED concVars

\* lines 181-182: es_client.update_by_query raises
UpdateItemsUpdateFails ==
    /\ pc = "update_items"
    /\ ~(call.id_list # None /\ BadIdList(call.id_list))
    /\ ~NoQuery(call)
    /\ GetUpdateScript(call.update_type, call.strict) # "ValueError"
    /\ RequestFails("update_by_query")
    /\ UNCHANGED <<call_time, call, store, indexExists, warned>>
    /\ UNCHANGED <<ingestVars, scrollVars>>
    /\ UNCHANGED concVars

\* lines 303-305: es_client.bulk raises
BulkRequestFails ==
    /\ pc = "bulk"
    /\ RequestFails("bulk")
    /\ UNCHANGED <<call_time, call, store, indexExists, warned>>
    /\ UNCHANGED <<ingestVars, scrollVars>>
    /\ UNCHANGED concVars

\* lines 225-226: es_client.delete raises
DeleteItemDeleteFails ==
    /\ pc = "delete_item"
    /\ RequestFails("delete")
    /\ UNCHANGED <<call_time, call, store, indexExists, warned>>
    /\ UNCHANGED <<ingestVars, scrollVars>>
    /\ UNCHANGED concVars

\* lines 260, 215, 185, 227, 307 -> line 490: es_client.indices.refresh raises
RefreshFails ==
    /\ pc \in {"insert_item_refresh", "update_item_refresh", "update_items_refresh",
               "delete_item_refresh", "bulk_refresh", "refresh"}
    /\ RequestFails("refresh")
    /\ UNCHANGED <<call_time, call, store, indexExists, warned>>
    /\ UNCHANGED <<ingestVars, scrollVars>>
    /\ UNCHANGED concVars

\* lines 231-232 raise a connectivity error: except Exception catches it
GetItemFails ==
    /\ pc = "get_item"
    /\ Logged("get")
    /\ engineFailed' = TRUE
    /\ GetItemHandler(call.ignore_not_found)
    /\ UNCHANGED <<call_time, call, store, indexExists>>
    /\ UNCHANGED <<ingestVars, scrollVars>>
    /\ UNCHANGED concVars

\* lines 241-243 raise a connectivity error: except NotFoundError lets it pass
GetItemsFails ==
    /\ pc = "get_items"
    /\ RequestFails("mget")
    /\ UNCHANGED <<call_time, call, store, indexExists, warned>>
    /\ UNCHANGED <<ingestVars, scrollVars>>
    /\ UNCHANGED concVars

\* lines 341-342: es_client.search raises
QueryItemsSearchFails ==
    /\ pc = "query_items"
    /\ RequestFails("search")
    /\ UNCHANGED <<call_time, call, store, indexExists, warned>>
    /\ UNCHANGED <<ingestVars, scrollVars>>
    /\ UNCHANGED concVars

\* lines 291-292, 489-490: the refresh request after a batch raises; the
\* batch was submitted, whether accepted or not, and nothing catches this
InsertItemsRefreshFails ==
    /\ pc = "insert_items_refresh"
    /\ RequestFails("refresh")
    /\ UNCHANGED scrollVars
    /\ UNCHANGED ingestVars
    /\ UNCHANGED <<call_time, call, store, indexExists, warned>>
    /\ UNCHANGED concVars

\* lines 449-451 and 506-508: the search that opens the cursor raises; no
\* cursor was opened
ScrollSearchFails ==
    /\ pc = "search"
    /\ RequestFails("search")
    /\ UNCHANGED scrollVars
    /\ UNCHANGED ingestVars
    /\ UNCHANGED <<call_time, call, store, indexExists, warned>>
    /\ UNCHANGED concVars

\* lines 461-464: the scroll request of _scroll_items raises
ScrollItemsScrollFails ==
    /\ pc = "while"
    /\ has_next
    /\ has_next' = FALSE
    /\ RequestFails("scroll")
    /\ UNCHANGED <<variant, page_size, max_size, num_items, hits, hit_idx, scnt,
                   scroll_id, res_scroll_id, ocnt, out, num_matching, scrollPos, handle,
                   searchCalls, scrollCalls, pagesServed, staleAdvance>>
    /\ UNCHANGED ingestVars
    /\ UNCHANGED <<call_time, call, store, indexExists, warned>>
    /\ UNCHANGED concVars

\* lines 518-520: the scroll request of _scroll_items_fast raises
FastScrollFails ==
    /\ pc = "fast_loop"
    /\ RequestFails("scroll")
    /\ UNCHANGED scrollVars
    /\ UNCHANGED ingestVars
    /\ UNCHANGED <<call_time, call, store, indexExists, warned>>
    /\ UNCHANGED concVars

\* lines 450-452 and 506-508: the index is absent: the search that would
\* open the cursor raises NotFoundError; no cursor was opened
ScrollSearchIndexMissing ==
    /\ pc = "search"
    /\ ~indexExists
    /\ Logged("search")
    /\ Raise("NotFoundError")
    /\ UNCHANGED scrollVars
    /\ UNCHANGED ingestVars
    /\ UNCHANGED <<call_time, call, store, indexExists, engineFailed, warned>>
    /\ UNCHANGED concVars

EngineFaults ==
    \/ InsertItemIndexFails
    \/ UpdateItemUpdateFails
    \/ UpdateItemsUpdateFails
    \/ DeleteItemDeleteFails
    \/ BulkRequestFails
    \/ RefreshFails
    \/ GetItemFails
    \/ GetItemsFails
    \/ QueryItemsSearchFails
    \/ InsertItemsRefreshFails
    \/ ScrollSearchFails
    \/ ScrollItemsScrollFails
    \/ FastScrollFails

NextFaulty ==
    \/ NextStore
    \/ NextIngest
    \/ NextScroll
    \/ EngineFaults
    \/ InsertItemsRefreshIndexMissing
    \/ ScrollSearchIndexMissing

SpecFaulty == InitWrite /\ [][NextFaulty]_vars

(***************************************************************************)
(* Two callers at the same time.  Each caller runs iterate_items (lines    *)
(* 310-319 over _scroll_items, lines 446-474) or insert_items (lines       *)
(* 262-300, refresh left at its default) on the one client; their steps,   *)
(* each an engine request or a yield, interleave in any order.  The        *)
(* engine keeps one cursor per search and serves a scroll request from     *)
(* the cursor its scroll id names.                                         *)
(***************************************************************************)
\* engine: search(..., scroll=SCROLL_SIZE) opens a cursor and serves its first page
CursorOpen(p, size, n) ==
    cursors' = Append(cursors, [opener |-> p, n |-> n, size |-> size,
                                pos |-> Len(EnginePage(0, size, n)), gen |-> 1,
                                advancedBy |-> {}, stale |-> FALSE])

\* engine: the scroll id names an open cursor
CursorKnown(id) == id.cursor \in 1..Len(cursors)

\* engine: scroll(scroll_id) moves the cursor the id names past its next page
CursorAdvance(p, id) ==
    cursors' = [cursors EXCEPT ![id.cursor] =
                   [@ EXCEPT !.pos = @ + Len(EnginePage(cursors[id.cursor].pos,
                                                        cursors[id.cursor].size,
                                                        cursors[id.cursor].n)),
                             !.gen = @ + 1,
                             !.advancedBy = @ \cup {p},
                             !.stale = @ \/ id.gen # cursors[id.cursor].gen]]

\* what the concurrent steps leave alone
ConcFrame == UNCHANGED <<pc, raised, call_time, ingestVars, scrollVars>>

\* caller p calls iterate_items(batch_size) and asks for the first value
ConcIterateItemsCall(p) ==
    /\ iters[p].pc = "idle"
    /\ \A q \in Procs : ingests[q].pc = "idle"
    /\ \E ps \in 1..MaxPageSize :
          iters' = [iters EXCEPT ![p] = [@ EXCEPT !.pc = "search", !.page_size = ps]]
    /\ UNCHANGED <<cursors, ingests, storeVars>>
    /\ ConcFrame

\* lines 450-456: the search request, for a query matching n documents
ConcScrollItemsSearch(p) ==
    /\ iters[p].pc = "search"
    /\ \E n \in 0..MaxDocs :
          /\ CursorOpen(p, iters[p].page_size, n)
          /\ iters' = [iters EXCEPT ![p] =
                [@ EXCEPT !.hits = EnginePage(0, iters[p].page_size, n),
                          !.res_scroll_id = [cursor |-> Len(cursors) + 1, gen |-> 1],
                          !.num_items = n,
                          !.cnt = 0,
                          !.hit_idx = 0,
                          !.pc = IF NoItems(n) THEN "yield_none" ELSE "first_page"]]
    /\ UNCHANGED <<ingests, storeVars>>
    /\ ConcFrame

\* line 455: yield None, handed on by iterate_items (lines 318-319)
ConcScrollItemsYieldNone(p) ==
    /\ iters[p].pc = "yield_none"
    /\ iters' = [iters EXCEPT ![p] =
          [@ EXCEPT !.out = Append(@, None), !.pc = "first_page"]]
    /\ UNCHANGED <<cursors, ingests, storeVars>>
    /\ ConcFrame

\* lines 458-460: a hit of the first page is yielded
ConcScrollItemsFirstPageHit(p) ==
    /\ iters[p].pc = "first_page"
    /\ iters[p].hit_idx < Len(iters[p].hits)
    /\ iters' = [iters EXCEPT ![p] =
          [@ EXCEPT !.cnt = @ + 1,
                    !.hit_idx = @ + 1,
                    !.out = Append(@, Source(iters[p].hits[iters[p].hit_idx + 1]))]]
    /\ UNCHANGED <<cursors, ingests, storeVars>>
    /\ ConcFrame

\* lines 461-462: the first page is used up
ConcScrollItemsEnterLoop(p) ==
    /\ iters[p].pc = "first_page"
    /\ iters[p].hit_idx = Len(iters[p].hits)
    /\ iters' = [iters EXCEPT ![p] =
          [@ EXCEPT !.scroll_id = iters[p].res_scroll_id,
                    !.has_next = HasNextInitially,
                    !.pc = "while"]]
    /\ UNCHANGED <<cursors, ingests, storeVars>>
    /\ ConcFrame

\* line 465: the scroll id the request carries is the generator's own local
ScrollIdOfFirstCaller(p) == iters[1].scroll_id
ScrollIdOf(p) == iters[p].scroll_id

\* lines 463-465: while has_next: the scroll request; the engine raises
\* NotFoundError for a scroll id that names no cursor
ConcScrollItemsScroll(p) ==
    /\ iters[p].pc = "while"
    /\ iters[p].has_next
    /\ LET id == ScrollIdOf(p)
       IN  IF CursorKnown(id)
           THEN /\ CursorAdvance(p, id)
                /\ iters' = [iters EXCEPT ![p] =
                      [@ EXCEPT !.has_next = FALSE,
                                !.hits = EnginePage(cursors[id.cursor].pos,
                                                    cursors[id.cursor].size,
                                                    cursors[id.cursor].n),
                                !.res_scroll_id = [cursor |-> id.cursor,
                                                   gen |-> cursors[id.cursor].gen + 1],
                                !.hit_idx = 0,
                                !.pc = "scroll_page"]]
           ELSE /\ iters' = [iters EXCEPT ![p] =
                      [@ EXCEPT !.has_next = FALSE,
                                !.raised = "NotFoundError",
                                !.pc = "raised"]]
                /\ UNCHANGED cursors
    /\ UNCHANGED <<ingests, storeVars>>
    /\ ConcFrame

\* lines 466-473: a hit of a later page is yielded (max_size is None)
ConcScrollItemsScrollHit(p) ==
    /\ iters[p].pc = "scroll_page"
    /\ iters[p].hit_idx < Len(iters[p].hits)
    /\ iters' = [iters EXCEPT ![p] =
          [@ EXCEPT !.has_next = ~ScrollReachedMax(iters[p].cnt + 1, <<>>),
                    !.cnt = @ + 1,
                    !.hit_idx = @ + 1,
                    !.out = Append(@, Source(iters[p].hits[iters[p].hit_idx + 1])),
                    !.pc = IF ScrollReachedMax(iters[p].cnt + 1, <<>>)
                              \/ iters[p].hit_idx + 1 = Len(iters[p].hits)
                           THEN "page_end" ELSE "scroll_page"]]
    /\ UNCHANGED <<cursors, ingests, storeVars>>
    /\ ConcFrame

\* line 474: scroll_id = res.get('_scroll_id'), after the loop over the page
ConcScrollItemsPageEnd(p) ==
    /\ \/ iters[p].pc = "page_end"
       \/ iters[p].pc = "scroll_page" /\ Len(iters[p].hits) = 0
    /\ iters' = [iters EXCEPT ![p] =
          [@ EXCEPT !.scroll_id = NextScrollId(@, iters[p].res_scroll_id),
                    !.pc = "while"]]
    /\ UNCHANGED <<cursors, ingests, storeVars>>
    /\ ConcFrame

\* line 463: has_next is False: the generator ends
ConcScrollItemsStop(p) ==
    /\ iters[p].pc = "while"
    /\ ~iters[p].has_next
    /\ iters' = [iters EXCEPT ![p] = [@ EXCEPT !.pc = "done"]]
    /\ UNCHANGED <<cursors, ingests, storeVars>>
    /\ ConcFrame

\* the steps of caller p's iterator
ConcIterNext(p) ==
    \/ ConcIterateItemsCall(p)
    \/ ConcScrollItemsSearch(p)
    \/ ConcScrollItemsYieldNone(p)
    \/ ConcScrollItemsFirstPageHit(p)
    \/ ConcScrollItemsEnterLoop(p)
    \/ ConcScrollItemsScroll(p)
    \/ ConcScrollItemsScrollHit(p)
    \/ ConcScrollItemsPageEnd(p)
    \/ ConcScrollItemsStop(p)

\* the items caller p passes: n documents with ids 1..n, marked with p
ConcItems(p, n) == [i \in 1..n |-> [id |-> i, a |-> p]]

\* lines 266-268: caller p calls insert_items; current_time is read once
ConcInsertItemsCall(p) ==
    /\ ingests[p].pc = "idle"
    /\ \A q \in Procs : iters[q].pc = "idle"
    /\ \E n \in 0..MaxConcItems, b \in 1..MaxBatchSize, t \in 1..MaxClock :
          ingests' = [ingests EXCEPT ![p] =
              [@ EXCEPT !.pc = "insert_items", !.items = ConcItems(p, n),
                        !.batch_size = b, !.current_time = t]]
    /\ UNCHANGED <<iters, cursors, storeVars>>
    /\ ConcFrame

\* lines 269-281: one iteration that only appends to the batch
ConcInsertItemsAppend(p) ==
    /\ ingests[p].pc = "insert_items"
    /\ ingests[p].cnt < Len(ingests[p].items)
    /\ ~BatchIsDue(ingests[p].cnt + 1, ingests[p].batch_size, Len(ingests[p].items))
    /\ LET g == ingests[p]
           item == Stamp(g.items[g.cnt + 1], g.current_time)
       IN  ingests' = [ingests EXCEPT ![p] =
               [@ EXCEPT !.cnt = @ + 1,
                         !.items = [@ EXCEPT ![g.cnt + 1] = item],
                         !.batch = Append(@, DocForIndex(item))]]
    /\ UNCHANGED <<iters, cursors, storeVars>>
    /\ ConcFrame

\* lines 269-284, 290: one iteration whose bulk submission returns
ConcInsertItemsSubmitOk(p) ==
    /\ ingests[p].pc = "insert_items"
    /\ ingests[p].cnt < Len(ingests[p].items)
    /\ BatchIsDue(ingests[p].cnt + 1, ingests[p].batch_size, Len(ingests[p].items))
    /\ LET g == ingests[p]
           item == Stamp(g.items[g.cnt + 1], g.current_time)
           full == Append(g.batch, DocForIndex(item))
       IN  /\ EngineBulk(full)
           /\ ingests' = [ingests EXCEPT ![p] =
                 [@ EXCEPT !.cnt = @ + 1,
                           !.items = [@ EXCEPT ![g.cnt + 1] = item],
                           !.log = Append(@, [docs |-> full, ok |-> TRUE]),
                           !.success = Len(full),
                           !.failed = 0,
                           !.batch = <<>>]]
    /\ UNCHANGED <<iters, cursors, call, ret, reqLog, engineFailed, warned>>
    /\ ConcFrame

\* lines 269-283, 285-290: one iteration whose bulk submission raises
ConcInsertItemsSubmitFail(p) ==
    /\ ingests[p].pc = "insert_items"
    /\ ingests[p].cnt < Len(ingests[p].items)
    /\ BatchIsDue(ingests[p].cnt + 1, ingests[p].batch_size, Len(ingests[p].items))
    /\ LET g == ingests[p]
           item == Stamp(g.items[g.cnt + 1], g.current_time)
           full == Append(g.batch, DocForIndex(item))
       IN  ingests' = [ingests EXCEPT ![p] =
               [@ EXCEPT !.cnt = @ + 1,
                         !.items = [@ EXCEPT ![g.cnt + 1] = item],
                         !.log = Append(@, [docs |-> full, ok |-> FALSE]),
                         !.errors = BulkErrorMessage(Text(2, "x")),
                         !.failed = Len(full),
                         !.batch = <<>>]]
    /\ UNCHANGED <<iters, cursors, storeVars>>
    /\ ConcFrame

\* lines 294-300: the result dict
ConcInsertItemsReturn(p) ==
    /\ ingests[p].pc = "insert_items"
    /\ ingests[p].cnt = Len(ingests[p].items)
    /\ ingests' = [ingests EXCEPT ![p] =
          [@ EXCEPT !.result = BulkResult(ingests[p].success, ingests[p].failed,
                                          ingests[p].errors),
                    !.pc = "returned"]]
    /\ UNCHANGED <<iters, cursors, storeVars>>
    /\ ConcFrame

\* the steps of caller p's insert_items
ConcIngestNext(p) ==
    \/ ConcInsertItemsCall(p)
    \/ ConcInsertItemsAppend(p)
    \/ ConcInsertItemsSubmitOk(p)
    \/ ConcInsertItemsSubmitFail(p)
    \/ ConcInsertItemsReturn(p)

NextConcurrent ==
    \/ \E p \in Procs : ConcIterNext(p)
    \/ \E p \in Procs : ConcIngestNext(p)

SpecConcurrent == Init /\ [][NextConcurrent]_vars

(***************************************************************************)
(* Properties of insert_items.                                             *)
(***************************************************************************)
CeilDiv(n, b) == (n + b - 1) \div b

SomeBatchFailed == \E j \in 1..Len(bulkLog) : ~bulkLog[j].ok

\* the size the j-th of k batches of n documents must have with batch size b
SliceLen(j, k, n, b) == IF j < k THEN b ELSE n - b * (k - 1)

\* C1: when insert_items returns, it has issued exactly ceil(N/B) bulk
\* submissions, the j-th being the j-th consecutive slice of the input in
\* input order: B documents each, the last N - B*(ceil(N/B)-1), none for
\* N = 0, and every document is in exactly one submitted batch.
C1_ConsecutiveBatches ==
    pc = "returned" =>
        LET n == Len(items)
            b == batch_size
            k == CeilDiv(n, b)
        IN  /\ Len(bulkLog) = k
            /\ \A j \in 1..k :
                  /\ Len(bulkLog[j].docs) = SliceLen(j, k, n, b)
                  /\ \A p \in 1..Len(bulkLog[j].docs) :
                        /\ bulkLog[j].docs[p]._source = items[(j - 1) * b + p]
                        /\ bulkLog[j].docs[p]._id = items[(j - 1) * b + p]["id"]
            /\ \A i \in 1..n :
                  Cardinality({ jp \in (1..Len(bulkLog)) \X (1..batch_size) :
                                 /\ jp[2] <= Len(bulkLog[jp[1]].docs)
                                 /\ bulkLog[jp[1]].docs[jp[2]]._id = items[i]["id"] }) = 1

\* C1 witness: 5 documents with batch size 2 went out as batches of 2, 2, 1.
C1_Witness ==
    /\ pc = "returned"
    /\ Len(items) = 5
    /\ batch_size = 2
    /\ Len(bulkLog) = 3
    /\ Len(bulkLog[1].docs) = 2
    /\ Len(bulkLog[2].docs) = 2
    /\ Len(bulkLog[3].docs) = 1

\* the number of loop positions up to c at which a batch is due
DuePoints(c) == Cardinality({ i \in 1..c : i % batch_size = 0 \/ i = Len(items) })

\* C2 (as claimed): a bulk submission that raises never aborts insert_items:
\* whatever batches fail, every due batch is submitted (the number of
\* submissions tracks the loop position alone), the call raises nothing
\* when every document has an id, the loop can always go on, and the call
\* returns a result with both counters.
C2_FailureNeverAborts ==
    call = NoCall =>
       /\ pc \in {"insert_items", "insert_items_refresh", "returned"} =>
             /\ raised = ""
             /\ Len(bulkLog) = DuePoints(cnt)
       /\ pc = "insert_items" => ENABLED NextIngest
       /\ pc = "raised" => raised = "KeyError" /\ ~HasField(items[cnt], "id")
       /\ pc = "returned" =>
             /\ Len(bulkLog) = CeilDiv(Len(items), batch_size)
             /\ {"success", "failed"} \subseteq DOMAIN result

\* C3 (as claimed): the returned success and failed counts are those of the
\* last submitted batch alone, a batch that raised counting entirely as
\* failed (success 0, failed its size).
C3_LastBatchOnly ==
    (pc = "returned" /\ Len(bulkLog) >= 1) =>
        LET last == bulkLog[Len(bulkLog)]
        IN  /\ result["success"] = (IF last.ok THEN Len(last.docs) ELSE 0)
            /\ result["failed"] = (IF last.ok THEN 0 ELSE Len(last.docs))

\* C4 (as claimed): when more than one batch was submitted, the returned
\* success + failed accounts for every input document.
C4_CountersAccumulate ==
    (pc = "returned" /\ Len(bulkLog) > 1) =>
        result["success"] + result["failed"] = Len(items)

\* C5: the result has an errors entry if and only if some batch submission
\* raised; it is then the prefix 'Error with bulk index: ' followed by the
\* text of the most recent exception cut to its first 512 characters, also
\* when later batches succeeded.
C5_ErrorMessage ==
    pc = "returned" =>
        /\ HasField(result, "errors") <=> SomeBatchFailed
        /\ HasField(result, "errors") =>
              LET msg == result["errors"]
                  kept == IF Len(lastExc) < 512 THEN Len(lastExc) ELSE 512
              IN  /\ Len(msg) = Len(ErrPrefix) + kept
                  /\ \A i \in 1..Len(msg) :
                        msg[i] = IF i <= Len(ErrPrefix) THEN ErrPrefix[i]
                                 ELSE lastExc[i - Len(ErrPrefix)]

\* C5 witness: a batch failed with a text longer than 512 characters, the
\* next batch succeeded, and the result still carries the message.
C5_Witness ==
    /\ pc = "returned"
    /\ Len(bulkLog) >= 2
    /\ ~bulkLog[Len(bulkLog) - 1].ok
    /\ bulkLog[Len(bulkLog)].ok
    /\ Len(lastExc) > 512
    /\ HasField(result, "errors")

(***************************************************************************)
(* Properties of the scroll iterators.                                     *)
(***************************************************************************)
HasMax == max_size # <<>>

\* the documents the consumer received, the sentinel left out
DocsOut == SelectSeq(out, LAMBDA v : v # None)

\* RECURSIVE sum of the sizes of the id pages the consumer received
RECURSIVE IdsIn(_)
IdsIn(pages) ==
    IF pages = <<>> THEN 0 ELSE Len(Head(pages)["ids"]) + IdsIn(Tail(pages))

\* C6: a per-document iterator without max_size, run to its end over N >= 1
\* matching documents served in pages of P, has yielded exactly the N
\* documents in cursor order, each once, without the sentinel, and the
\* engine has served ceil(N/P) non-empty pages.
C6_FullConsumption ==
    (/\ pc = "done"
     /\ variant \in PerDocVariants
     /\ ~HasMax
     /\ num_matching >= 1) =>
        /\ out = [i \in 1..num_matching |-> [id |-> i]]
        /\ pagesServed = CeilDiv(num_matching, page_size)
        /\ raised = ""

\* C6 witness: 201 documents came in three pages of at most 100.
C6_Witness ==
    /\ pc = "done"
    /\ variant = "scroll_items"
    /\ num_matching = 2 * page_size + 1
    /\ Len(out) = num_matching
    /\ pagesServed = 3

\* C7: over a query matching nothing, a per-document iterator yields the
\* None sentinel and nothing else: once it has ended the consumer holds
\* exactly that one value, it never holds anything but it, nothing is
\* raised, and the iterator can always take its next step until it has ended.
C7_ZeroMatchSentinel ==
    (variant \in PerDocVariants /\ num_matching = 0 /\ pc # "search") =>
        /\ raised = ""
        /\ out \in {<<>>, <<[None |-> TRUE]>>}
        /\ pc = "done" => out = <<[None |-> TRUE]>>
        /\ pc # "done" => ENABLED NextScroll

\* C7 witness: iterate_query_items ended after the sentinel alone.
C7_Witness ==
    /\ pc = "done"
    /\ variant = "iterate_query_items"
    /\ num_matching = 0
    /\ out = <<None>>
    /\ scrollCalls = 1

\* C8 (as claimed): over a query matching nothing, scroll_items_by_size
\* yields exactly one sentinel value and ends without an error.
C8_FastZeroMatch ==
    (/\ variant = "scroll_items_by_size"
     /\ num_matching = 0
     /\ pc \in {"done", "raised"}) =>
        /\ raised = ""
        /\ out = <<None>>

\* C9: iterate_query_items with max_size = k over N > k matching documents
\* has, when it stops, yielded at least k and fewer than k + 100 documents.
C9_QueryItemsMaxSize ==
    (/\ pc = "done"
     /\ variant = "iterate_query_items"
     /\ HasMax
     /\ num_matching > max_size[1]) =>
        /\ Len(DocsOut) >= max_size[1]
        /\ Len(DocsOut) < max_size[1] + 100
        /\ Len(out) = Len(DocsOut)

\* C9 witness: with max_size = 101 over 201 documents the iterator stopped
\* inside the second page.
C9_Witness ==
    /\ pc = "done"
    /\ variant = "iterate_query_items"
    /\ max_size = <<101>>
    /\ num_matching = 201
    /\ scrollCalls = 1
    /\ Len(out) \in 101..200

\* C10 (as claimed): scroll_items_by_size with max_size = k and page size P
\* over N > k matching documents has, when it stops, yielded at least k and
\* fewer than k + P ids.
C10_FastMaxSizeOvershoot ==
    (/\ pc = "done"
     /\ variant = "scroll_items_by_size"
     /\ HasMax
     /\ num_matching > max_size[1]) =>
        /\ IdsIn(out) >= max_size[1]
        /\ IdsIn(out) < max_size[1] + page_size

(***************************************************************************)
(* Properties of the document operations.                                  *)
(***************************************************************************)
\* the running call has arguments its validation rejects
InvalidArguments ==
    \/ call.op = "insert_item" /\ "id" \notin DOMAIN call.item
    \/ call.op = "update_items" /\ call.id_list = None /\ call.query = None
    \/ /\ call.op = "update_items"
       /\ call.id_list # None
       /\ (IF "list" \in DOMAIN call.id_list THEN call.id_list.list = <<>> ELSE TRUE)
    \/ call.op \in {"update_item", "update_items"} /\ call.update_type \notin {"partial", "full"}

\* C11: a call whose arguments are invalid (insert_item of a document without
\* id; update_items with neither query nor id_list, or with an id_list that
\* is empty or not a list; update_item/update_items with an update_type
\* other than 'partial' or 'full') raises, and its one step is that raise:
\* no request reaches the engine, the index is as it was, and the arguments
\* are as passed, the document without an indexed stamp.
C11_ValidationBeforeEngine ==
    /\ [](InvalidArguments =>
            /\ pc \in {call.op, "raised"}
            /\ pc = call.op => ENABLED NextStore
            /\ pc = "raised" => raised \in {"RuntimeError", "ValueError"}
            /\ reqLog = <<>>)
    /\ [][InvalidArguments =>
            /\ pc' = "raised"
            /\ store' = store
            /\ indexExists' = indexExists
            /\ call' = call]_vars

\* C11 witness: insert_item of a document with neither id nor indexed raised
\* RuntimeError, the document still without indexed and nothing requested.
C11_Witness ==
    /\ pc = "raised"
    /\ raised = "RuntimeError"
    /\ call.op = "insert_item"
    /\ DOMAIN call.item = {"a"}
    /\ reqLog = <<>>

\* the document d as it must be written when the clock reads t: as passed
\* if it has indexed, else with indexed = t added and nothing else changed
WrittenAs(d, t) ==
    IF "indexed" \in DOMAIN d THEN d
    ELSE [f \in DOMAIN d \cup {"indexed"} |-> IF f = "indexed" THEN t ELSE d[f]]

\* C12: indexed is attached only when absent and never overwritten.  The
\* step of insert_item that writes puts under the document's id the passed
\* document, unchanged if it has indexed and else with an indexed not before
\* the start of the call.  Every step of insert_items that takes an item
\* leaves it unchanged if it has indexed and else gives it the one timestamp
\* of the call, which is not before the start of the call and is the same
\* at every step; the batches submitted hold the items so stamped, and a
\* batch that was accepted is in the index with those values.
C12_IndexedOnlyWhenAbsent ==
    /\ [][(pc = "insert_item" /\ pc' = "insert_item_refresh") =>
            \E t \in call_time..MaxClock :
                /\ call'.item = WrittenAs(call.item, t)
                /\ store'[call.item["id"]] = WrittenAs(call.item, t)]_vars
    /\ [][(pc = "insert_items" /\ cnt' = cnt + 1) =>
            /\ current_time' = current_time
            /\ current_time >= call_time
            /\ items'[cnt'] = WrittenAs(items[cnt'], current_time)
            /\ \A k \in 1..Len(items) : k # cnt' => items'[k] = items[k]
            /\ Len(bulkLog') > Len(bulkLog) =>
                  LET b == bulkLog'[Len(bulkLog')]
                  IN  /\ b.docs[Len(b.docs)]._source = items'[cnt']
                      /\ b.ok => \A k \in 1..Len(b.docs) :
                                    store'[b.docs[k]._id] = b.docs[k]._source]_vars
    /\ [](pc \in {"insert_items", "returned"} /\ variant = "" /\ call = NoCall =>
            \A j \in 1..Len(bulkLog) : \A k \in 1..Len(bulkLog[j].docs) :
                bulkLog[j].docs[k]._source = items[(j - 1) * batch_size + k])

\* C12 witness: insert_items of four items in batches of one, started at
\* time 1 with the timestamp 2 read: the first item kept its indexed 0, the
\* second and the fourth, in different batches, both carry 2.
C12_Witness ==
    /\ pc = "returned"
    /\ Len(items) = 4
    /\ batch_size = 1
    /\ call_time = 1
    /\ Len(bulkLog) = 4
    /\ bulkLog[1].docs[1]._source = [id |-> 1, indexed |-> 0]
    /\ bulkLog[2].docs[1]._source = [id |-> 2, indexed |-> 2]
    /\ bulkLog[4].docs[1]._source = [id |-> 4, indexed |-> 2]

\* the step in which update_item or update_items applies the update spec
\* (update_type, strict) to the index
Updating(update_type, strict) ==
    /\ call.op \in {"update_item", "update_items"}
    /\ pc = call.op
    /\ pc' \in {"returned", call.op \o "_refresh"}
    /\ call.update_type = update_type
    /\ call.strict = strict

\* the params M of the running update (none passed: no field)
Supplied == IF call.update_fields = None THEN [f \in {} |-> 0] ELSE call.update_fields

\* the _ids of the documents the running update is applied to
Targets ==
    IF call.op = "update_item" THEN {call.item_id}
    ELSE IF call.id_list = None THEN DOMAIN store
    ELSE { i \in DOMAIN store :
             \E k \in 1..Len(call.id_list.list) : call.id_list.list[k] = store[i]["id"] }

\* C13: the update spec (partial, strict) applied to a document D with params
\* M leaves the set of field names of D as it was (a field of M that D lacks
\* is still absent), gives every field of D that is in M the value of M and
\* leaves every other field of D unchanged; documents the update is not
\* applied to are unchanged.
C13_PartialStrict ==
    [][Updating("partial", TRUE) =>
        /\ DOMAIN store' = DOMAIN store
        /\ \A i \in DOMAIN store :
              IF i \in Targets
              THEN /\ DOMAIN store'[i] = DOMAIN store[i]
                   /\ \A f \in DOMAIN Supplied \ DOMAIN store[i] : f \notin DOMAIN store'[i]
                   /\ \A f \in DOMAIN store[i] \cap DOMAIN Supplied :
                         store'[i][f] = Supplied[f]
                   /\ \A f \in DOMAIN store[i] \ DOMAIN Supplied :
                         store'[i][f] = store[i][f]
              ELSE store'[i] = store[i]]_vars

\* C13 witness: update_item(1, {a: 2, c: 2}, partial, strict) on a document
\* with a and b returned: a is 2, b and indexed are as before, c is absent.
C13_Witness ==
    /\ pc = "returned"
    /\ call.op = "update_item"
    /\ call.update_type = "partial"
    /\ call.strict
    /\ call.item_id = 1
    /\ call.update_fields = [a |-> 2, c |-> 2]
    /\ store[1] = [id |-> 1, indexed |-> 0, a |-> 2, b |-> 1]

\* C14: the update spec (full, non-strict) applied to a document D with
\* params M that have no id keeps the value of id, nulls every other field
\* of D that is not in M and sets every field of M to the value of M: the
\* fields that carry a value are exactly id and the fields of M.
C14_FullNonStrict ==
    [][(Updating("full", FALSE) /\ "id" \notin DOMAIN Supplied) =>
        /\ DOMAIN store' = DOMAIN store
        /\ \A i \in DOMAIN store :
              IF i \in Targets
              THEN /\ DOMAIN store'[i] = DOMAIN store[i] \cup DOMAIN Supplied
                   /\ store'[i]["id"] = store[i]["id"]
                   /\ \A f \in DOMAIN Supplied : store'[i][f] = Supplied[f]
                   /\ \A f \in DOMAIN store[i] \ (DOMAIN Supplied \cup {"id"}) :
                         store'[i][f] = Null
                   /\ {f \in DOMAIN store'[i] : store'[i][f] # Null} =
                         {"id"} \cup DOMAIN Supplied
              ELSE store'[i] = store[i]]_vars

\* C14 witness: update_item(1, {a: 2, c: 2}, full, non-strict) on a document
\* with a and b returned: id is 1, a and c are 2, b and indexed are null.
C14_Witness ==
    /\ pc = "returned"
    /\ call.op = "update_item"
    /\ call.update_type = "full"
    /\ ~call.strict
    /\ call.item_id = 1
    /\ call.update_fields = [a |-> 2, c |-> 2]
    /\ store[1] = [id |-> 1, indexed |-> Null, a |-> 2, b |-> Null, c |-> 2]

\* C15 (as stated): the update spec (full, strict) applied to a document D
\* with any params M creates no field, gives every non-id field of D that
\* is in M the value of M, nulls every other non-id field of D, and keeps id.
C15_FullStrictKeepsId ==
    [][Updating("full", TRUE) =>
        \A i \in Targets \cap DOMAIN store :
            /\ DOMAIN store'[i] = DOMAIN store[i]
            /\ \A f \in DOMAIN store[i] \ {"id"} :
                  store'[i][f] = IF f \in DOMAIN Supplied THEN Supplied[f] ELSE Null
            /\ store'[i]["id"] = store[i]["id"]]_vars

\* C15 (amended): the update spec (full, strict) applied to a document D
\* with any params M creates no field, gives every field of D that is in M,
\* id included, the value of M, keeps id when M has no id, and nulls every
\* other field of D; documents the update is not applied to are unchanged.
C15_FullStrict ==
    [][Updating("full", TRUE) =>
        /\ DOMAIN store' = DOMAIN store
        /\ \A i \in DOMAIN store :
              IF i \in Targets
              THEN /\ DOMAIN store'[i] = DOMAIN store[i]
                   /\ \A f \in DOMAIN store[i] :
                         store'[i][f] = IF f \in DOMAIN Supplied THEN Supplied[f]
                                        ELSE IF f = "id" THEN store[i][f]
                                        ELSE Null
              ELSE store'[i] = store[i]]_vars

\* C15 witness: update_item(1, {id: 2, a: 2, c: 2}, full, strict) on a
\* document with a and b returned: id and a are 2, b and indexed are null,
\* c is absent.
C15_Witness ==
    /\ pc = "returned"
    /\ call.op = "update_item"
    /\ call.update_type = "full"
    /\ call.strict
    /\ call.item_id = 1
    /\ call.update_fields = [id |-> 2, a |-> 2, c |-> 2]
    /\ store[1] = [id |-> 2, indexed |-> Null, a |-> 2, b |-> Null]

\* C16: get_item never raises.  Its one step returns: the stored document
\* when the index has one under that id and None otherwise, for both values
\* of ignore_not_found, which decides only whether the warning is logged;
\* the index is left as it was.
C16_GetItemNeverRaises ==
    /\ [](call.op = "get_item" =>
            /\ pc \in {"get_item", "returned"}
            /\ raised = ""
            /\ pc = "get_item" => ENABLED NextStore)
    /\ [][(call.op = "get_item" /\ pc = "get_item") =>
            /\ pc' = "returned"
            /\ ret' = IF call.item_id \in DOMAIN store THEN store[call.item_id] ELSE None
            /\ warned' = (call.item_id \notin DOMAIN store /\ ~call.ignore_not_found)
            /\ store' = store
            /\ indexExists' = indexExists
            /\ call' = call]_vars

\* C16 witness: get_item(2, ignore_not_found=False) on an index without a
\* document 2 returned None and logged the warning.
C16_Witness ==
    /\ pc = "returned"
    /\ call.op = "get_item"
    /\ call.item_id = 2
    /\ ~call.ignore_not_found
    /\ 2 \notin DOMAIN store
    /\ ret = None
    /\ warned

\* C17: once a request of the running call has failed (the engine was
\* unreachable or timed out), the call has raised, unless it is get_item
\* with ignore_not_found = true; the other softened case, a bulk submission
\* of insert_items that raises, is not such a request.
C17_FailuresSurface ==
    engineFailed =>
        \/ pc = "raised" /\ raised = "ConnectionError"
        \/ call.op = "get_item" /\ call.ignore_not_found

(***************************************************************************)
(* Properties of the index lifecycle.                                      *)
(***************************************************************************)
\* C18: create() (also as run by the construction) asks whether the index
\* exists and issues createIndex exactly when the answer is no, leaving an
\* existing index and its documents as they are; delete() issues its one
\* request whether or not the index exists; no call raises; so after the
\* construction the index exists, and after every later call the index
\* exists if and only if that call was create().
C18_LifecycleIdempotent ==
    /\ [](/\ raised = ""
          /\ pc # "raised"
          /\ pc \in {"__init__", "create", "create_index", "delete"} =>
                ENABLED NextLifecycle
          /\ (pc = "returned" /\ call.op \in {"__init__", "create"}) =>
                /\ indexExists
                /\ reqLog \in {<<"exists">>, <<"exists", "create">>}
          /\ (pc = "returned" /\ call.op = "delete") =>
                /\ ~indexExists
                /\ reqLog = <<"delete_index">>)
    /\ [][/\ (pc \in {"__init__", "create"}) =>
               /\ pc' = IF indexExists THEN "returned" ELSE "create_index"
               /\ reqLog' = <<"exists">>
               /\ UNCHANGED <<store, indexExists>>
          /\ (pc = "create_index") =>
               /\ pc' = "returned"
               /\ reqLog' = <<"exists", "create">>
               /\ ~indexExists /\ indexExists']_vars

\* C18 witness: the third call after the construction, a create() that
\* followed a delete(), returned: the index was created anew.
C18_Witness ==
    /\ pc = "returned"
    /\ call = [op |-> "create", seq |-> 3]
    /\ reqLog = <<"exists", "create">>
    /\ indexExists

(***************************************************************************)
(* Properties of the refresh policy.                                       *)
(***************************************************************************)
\* C19: a returned insert_item has issued the write and then one refresh; a
\* returned delete_item the delete and then one refresh; a returned
\* update_item or update_items the update, followed by one refresh exactly
\* when refresh = true; insert_items has issued one refresh per batch
\* submitted so far when refresh = true and none otherwise, the refresh of
\* a batch being the request that follows its submission.
C19_RefreshPolicy ==
    /\ (pc = "returned" /\ call.op = "insert_item") => reqLog = <<"index", "refresh">>
    /\ (pc = "returned" /\ call.op = "delete_item") => reqLog = <<"delete", "refresh">>
    /\ (pc = "returned" /\ call.op = "update_item") =>
          reqLog = IF call.refresh THEN <<"update", "refresh">> ELSE <<"update">>
    /\ (pc = "returned" /\ call.op = "update_items") =>
          reqLog = IF call.refresh THEN <<"update_by_query", "refresh">>
                   ELSE <<"update_by_query">>
    /\ (pc \in {"insert_items", "returned"} /\ call = NoCall) =>
          refreshCount = IF refresh THEN Len(bulkLog) ELSE 0
    /\ (pc = "insert_items_refresh") =>
          /\ refresh
          /\ batch = <<>>
          /\ refreshCount = Len(bulkLog) - 1

\* C19 witness: update_item with refresh = true returned after the update
\* and one refresh.
C19_Witness ==
    /\ pc = "returned"
    /\ call.op = "update_item"
    /\ call.refresh
    /\ reqLog = <<"update", "refresh">>

(***************************************************************************)
(* Properties of the cursor protocol.                                      *)
(***************************************************************************)
\* C20: every iterator opens its cursor once, before anything else, and
\* never again; each advance carries the scroll id of the engine's latest
\* response, is issued only when every document served so far has been
\* yielded to the consumer, is never issued after an advance that returned
\* an empty page nor after the max_size truncation has triggered (the
\* consumer of iterate_query_items holds more than max_size values, or
\* scroll_items_by_size was served more than max_size ids); and an iterator
\* that has not ended can always take its next step.
C20_CursorProtocol ==
    /\ [](/\ searchCalls = IF pc \in {"idle", "search"} THEN 0 ELSE 1
          /\ scrollCalls > 0 => searchCalls = 1
          /\ ~staleAdvance
          /\ pc \notin {"idle", "done", "raised"} => ENABLED NextScroll)
    /\ [][scrollCalls' # scrollCalls =>
            /\ scrollCalls' = scrollCalls + 1
            /\ searchCalls' = searchCalls
            /\ scroll_id = handle
            /\ scrollPos = IF variant = "scroll_items_by_size" THEN IdsIn(out)
                           ELSE Len(DocsOut)
            /\ (scrollCalls > 0 => hits # <<>>)
            /\ (HasMax /\ variant = "iterate_query_items" => Len(out) <= max_size[1])
            /\ (HasMax /\ variant = "scroll_items_by_size" => scrollPos <= max_size[1])]_vars

\* C20 witness: iterate_items over 3 documents in pages of 2 has ended after
\* one open and two advances, the second of which returned the empty page.
C20_Witness ==
    /\ pc = "done"
    /\ variant = "iterate_items"
    /\ num_matching = 3
    /\ page_size = 2
    /\ searchCalls = 1
    /\ scrollCalls = 2
    /\ hits = <<>>
    /\ Len(out) = 3

(***************************************************************************)
(* Properties of insert_items on a document without id.                    *)
(***************************************************************************)
\* C22: insert_items never gets past a document without id and returns no
\* result over one.  When the first such document is at position i, the
\* call has raised with exactly floor((i-1)/B) batches submitted, namely the
\* full batches items[(j-1)B+1 .. jB] before it, those the engine accepted
\* being in the index; the (i-1) mod B documents of the partial batch are
\* still unsubmitted, and the call takes no further step.
C22_MissingIdNotAtomic ==
    /\ (pc \in {"insert_items", "returned"} /\ call = NoCall) =>
          \A k \in 1..cnt : HasField(items[k], "id")
    /\ (pc = "raised" /\ call = NoCall /\ variant = "") =>
          /\ raised = "KeyError"
          /\ result = NoResult
          /\ cnt \in 1..Len(items)
          /\ ~HasField(items[cnt], "id")
          /\ \A k \in 1..(cnt - 1) : HasField(items[k], "id")
          /\ Len(bulkLog) = (cnt - 1) \div batch_size
          /\ \A j \in 1..Len(bulkLog) :
                /\ Len(bulkLog[j].docs) = batch_size
                /\ \A k \in 1..batch_size :
                      LET d == bulkLog[j].docs[k]
                      IN  /\ d._source = items[(j - 1) * batch_size + k]
                          /\ bulkLog[j].ok => store[d._id] = d._source
          /\ Len(batch) = (cnt - 1) % batch_size
          /\ \A k \in 1..Len(batch) :
                batch[k]._source = items[Len(bulkLog) * batch_size + k]
          /\ ~ENABLED NextIngest

\* C22 witness: five items in batches of two, the fourth without id: the
\* call raised after one batch, with the third item left in the batch.
C22_Witness ==
    /\ pc = "raised"
    /\ raised = "KeyError"
    /\ Len(items) = 5
    /\ batch_size = 2
    /\ cnt = 4
    /\ Len(bulkLog) = 1
    /\ Len(batch) = 1
    /\ batch[1]._id = 3

(***************************************************************************)
(* Properties of iterate_query_items with max_size.                        *)
(***************************************************************************)
\* C23: iterate_query_items with max_size = k, run to its end over N >= 1
\* matching documents, has yielded exactly the first min(N, k + 1)
\* documents in cursor order, for every k >= 0 and whatever the page in
\* which the count passes k, the first page included.
C23_QueryItemsOffByOne ==
    (/\ pc = "done"
     /\ variant = "iterate_query_items"
     /\ HasMax
     /\ num_matching >= 1) =>
        LET k == max_size[1]
            n == IF num_matching < k + 1 THEN num_matching ELSE k + 1
        IN  /\ out = [i \in 1..n |-> Source(i)]
            /\ raised = ""

\* C23 witness: max_size = 100 over 201 documents served in pages of 100:
\* the iteration ended in the second page with 101 documents yielded.
C23_Witness ==
    /\ pc = "done"
    /\ variant = "iterate_query_items"
    /\ max_size = <<100>>
    /\ num_matching = 201
    /\ Len(out) = 101
    /\ scrollCalls = 1

(***************************************************************************)
(* Properties of concurrent callers.                                       *)
(***************************************************************************)
\* what iterate_items yields when it runs alone over n documents
YieldedAlone(n) == IF n = 0 THEN <<None>> ELSE [i \in 1..n |-> Source(i)]

IsPrefix(s, t) == Len(s) <= Len(t) /\ \A i \in 1..Len(s) : s[i] = t[i]

\* the batches insert_items submits when it runs alone with these arguments
BatchesAlone(p, n, b, t) ==
    [j \in 1..CeilDiv(n, b) |->
        [k \in 1..(IF j * b <= n THEN b ELSE n - (j - 1) * b) |->
            DocForIndex(Stamp(ConcItems(p, n)[(j - 1) * b + k], t))]]

\* the result insert_items builds from the outcomes of its own submissions
ResultOf(log) ==
    LET oks   == { j \in 1..Len(log) : log[j].ok }
        fails == { j \in 1..Len(log) : ~log[j].ok }
        lastOk == CHOOSE j \in oks : \A i \in oks : i <= j
    IN  BulkResult(IF oks = {} THEN 0 ELSE Len(log[lastOk].docs),
                   IF Len(log) \in fails THEN Len(log[Len(log)].docs) ELSE 0,
                   IF fails = {} THEN <<>> ELSE BulkErrorMessage(Text(2, "x")))

\* the iterator of caller p works on the cursor its own search opened
OwnCursor(p) ==
    /\ iters[p].res_scroll_id.cursor \in 1..Len(cursors)
    /\ cursors[iters[p].res_scroll_id.cursor].opener = p
    /\ iters[p].pc \notin {"yield_none", "first_page"} =>
          iters[p].scroll_id.cursor = iters[p].res_scroll_id.cursor

\* C21: with two callers whose engine requests and yields interleave in any
\* order, every cursor is advanced only by the iterator whose search opened
\* it and always with its current scroll id; each iterator raises nothing,
\* can always go on, has yielded a prefix of what it yields alone and, at
\* its end, exactly that; each insert_items call has submitted the leading
\* batches of its own partition, and its result is the one its own
\* submissions' outcomes give.
C21_ConcurrentCallsIndependent ==
    /\ \A c \in 1..Len(cursors) :
          /\ cursors[c].advancedBy \subseteq {cursors[c].opener}
          /\ ~cursors[c].stale
    /\ \A p \in Procs :
          iters[p].pc \notin {"idle", "search"} =>
             /\ iters[p].pc # "raised"
             /\ iters[p].raised = ""
             /\ OwnCursor(p)
             /\ IsPrefix(iters[p].out, YieldedAlone(iters[p].num_items))
             /\ iters[p].pc = "done" =>
                   iters[p].out = YieldedAlone(iters[p].num_items)
             /\ iters[p].pc # "done" => ENABLED ConcIterNext(p)
    /\ \A p \in Procs :
          ingests[p].pc # "idle" =>
             LET g == ingests[p]
                 alone == BatchesAlone(p, Len(g.items), g.batch_size, g.current_time)
             IN  /\ Len(g.log) <= Len(alone)
                 /\ \A j \in 1..Len(g.log) : g.log[j].docs = alone[j]
                 /\ g.pc = "returned" =>
                       /\ Len(g.log) = Len(alone)
                       /\ g.result = ResultOf(g.log)
                 /\ g.pc # "returned" => ENABLED ConcIngestNext(p)

\* C21 witness: both iterators are inside a later page at once, each on
\* the cursor it opened, over different numbers of documents, and both
\* cursors have been advanced.
C21_Witness ==
    /\ Len(cursors) = 2
    /\ cursors[1].opener # cursors[2].opener
    /\ cursors[1].advancedBy = {cursors[1].opener}
    /\ cursors[2].advancedBy = {cursors[2].opener}
    /\ \A p \in Procs :
          /\ iters[p].pc = "scroll_page"
          /\ Len(iters[p].hits) >= 1
          /\ iters[p].cnt >= iters[p].page_size
    /\ iters[1].num_items # iters[2].num_items

\* both insert_items calls returned, each after two batches against the
\* same index, one of them with a failed batch
C21_IngestWitness ==
    /\ \A p \in Procs :
          /\ ingests[p].pc = "returned"
          /\ Len(ingests[p].log) = 2
    /\ ingests[1].result = [success |-> 1, failed |-> 0]
    /\ "errors" \in DOMAIN ingests[2].result

====
